------------------------------- MODULE MCSurveys -------------------------------
(* Two areas, so that a submission can leave one out, and two organizers whose *)
(* transactions overlap each other and the submissions of one student.         *)
EXTENDS Surveys, TLC

CONSTANTS s1, a1, a2, w1, w2

SurveySymmetry == Permutations({w1, w2})
================================================================================
