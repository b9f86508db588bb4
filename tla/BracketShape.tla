---------------------------- MODULE BracketShape ----------------------------
(***************************************************************************)
(* What kind of tree the matches of a single elimination stage item form.  *)
(* The modules about score entry take any tree of this kind (BracketTree); *)
(* the trees that the code builds are of this kind (BracketBuild).         *)
(***************************************************************************)
EXTENDS Naturals

(* NULL in the database and None in the code; ids start at 1. *)
None == 0

Sides == 1 .. 2

(* A match is fed from earlier rounds, and a side that is fed is not seated *)
(* when the match is created.                                               *)
IsTree(matches, roundOf, feeder, entrants, seed) ==
    /\ matches \subseteq Nat \ {None}
    /\ entrants \subseteq Nat \ {None}
    /\ roundOf \in [matches -> Nat]
    /\ feeder \in [matches -> [Sides -> matches \cup {None}]]
    /\ \A m \in matches, k \in Sides :
          feeder[m][k] # None => roundOf[feeder[m][k]] < roundOf[m]
    /\ seed \in [matches -> [Sides -> entrants \cup {None}]]
    /\ \A m \in matches, k \in Sides : feeder[m][k] # None => seed[m][k] = None

(* Every input is seated once, in the first round, and the winner of a      *)
(* match plays once in the round after it.                                  *)
IsRoundByRound(matches, roundOf, feeder, seed) ==
    \A m, o \in matches, k, l \in Sides :
        /\ (seed[m][k] # None /\ seed[m][k] = seed[o][l]) => (m = o /\ k = l)
        /\ (feeder[m][k] # None /\ feeder[m][k] = feeder[o][l]) => (m = o /\ k = l)
        /\ (feeder[m][k] # None /\ roundOf[m] = roundOf[o]) =>
              /\ feeder[o][l] # None
              /\ roundOf[feeder[m][k]] = roundOf[feeder[o][l]]
=============================================================================
