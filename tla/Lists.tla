------------------------------- MODULE Lists -------------------------------
(***************************************************************************)
(* What the program's Python takes from its built-in functions on lists of *)
(* numbers: sum() and sorted().                                            *)
(***************************************************************************)
EXTENDS Integers, Sequences, FiniteSets

\* sum().
Total(numbers) ==
    LET sum[n \in 0 .. Len(numbers)] == IF n = 0 THEN 0 ELSE sum[n - 1] + numbers[n]
    IN sum[Len(numbers)]

\* sorted(): the place of each number by size, equal ones in their order.
SortedPlace(numbers, i) ==
    Cardinality({j \in DOMAIN numbers :
                    numbers[j] < numbers[i] \/ (numbers[j] = numbers[i] /\ j < i)}) + 1
\* Whose number is at each place.
SortedPlaces(numbers) ==
    [k \in DOMAIN numbers |-> CHOOSE i \in DOMAIN numbers : SortedPlace(numbers, i) = k]
=============================================================================
