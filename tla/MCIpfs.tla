------------------------------- MODULE MCIpfs -------------------------------
(***************************************************************************)
(* The Merkle trees and the measurement for TLC: windows over two          *)
(* payloads, so that equal neighbours and equal subtrees occur, of up to   *)
(* three levels of pairs; a measurement of four payloads.                  *)
(***************************************************************************)
EXTENDS IpfsMeasurement

CONSTANTS p, q

MCPayloads == {p, q}
=============================================================================
