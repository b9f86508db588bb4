----------------------------- MODULE RoundRobin -----------------------------
(***************************************************************************)
(* The matches the code creates for a round robin stage item               *)
(* (logic/scheduling/round_robin.py): a table of the inputs is folded in   *)
(* the middle to give the matches of a round, and for the next round all   *)
(* of the table but its first place is turned by one.  Inputs are numbered *)
(* from 0; if their number n is odd, the last of the table does not exist    *)
(* and whoever meets it has a free round.                                  *)
(***************************************************************************)
EXTENDS Naturals, Sequences, SequencesExt

RoundCount(n) == IF n % 2 = 0 THEN n - 1 ELSE n

PlaceOf(table, input) == CHOOSE i \in DOMAIN table : table[i] = input

(* Seeded fault: the input that is moved becomes the first. *)
TurnedToFront(table, input) == InsertAt(RemoveAt(table, PlaceOf(table, input)), 1, input)

(* t.remove(input); t.insert(1, input) *)
Turned(table, input) == InsertAt(RemoveAt(table, PlaceOf(table, input)), 2, input)

(* The first of the table meets the last, the second the last but one, ...  *)
Folded(table) ==
    [m \in 1 .. Len(table) \div 2 |-> <<table[m], table[Len(table) + 1 - m]>>]

Combinations(n) ==
    LET count == RoundCount(n)
        table[r \in 1 .. count] ==
            IF r = 1 THEN [i \in 1 .. count + 1 |-> i - 1]
                     ELSE Turned(table[r - 1], count + 2 - r)
    IN  [r \in 1 .. count |-> Folded(table[r])]

(* Only the matches of two inputs that exist are created. *)
Existing(n, pairs) == Restrict(pairs, {m \in DOMAIN pairs : pairs[m][1] < n /\ pairs[m][2] < n})

(* The matches of each round, by where in the table they are from. *)
BuildRoundRobin(n) ==
    LET all == Combinations(n)
    IN  [r \in 1 .. RoundCount(n) |-> Existing(n, all[r])]
=============================================================================
