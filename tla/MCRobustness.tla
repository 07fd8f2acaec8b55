---------------------------- MODULE MCRobustness ----------------------------
(***************************************************************************)
(* The study for TLC: a period of four steps and every window of at most   *)
(* nine steps that begins in the first ten; the study's ten validators,    *)
(* and fewer at a finer resolution; two payloads with up to four replicas. *)
(***************************************************************************)
EXTENDS RobustnessStudy

MCWindows == [start : 0 .. 9, dur : 0 .. 9]
MCChurnCases ==
    <<[n |-> 10, D |-> 8], [n |-> 6, D |-> 24], [n |-> 4, D |-> 60]>>
MCOutages == <<1, 2, 5>>
=============================================================================
