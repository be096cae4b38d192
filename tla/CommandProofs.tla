--------------------------- MODULE CommandProofs ---------------------------
(***************************************************************************)
(* The creation command: the scan of decode_container reads it as Podman   *)
(* does, and what it tells of relabels and of the image is what command    *)
(* and record say.                                                         *)
(***************************************************************************)
EXTENDS ContainerFieldProofs, WellFoundedInduction

-----------------------------------------------------------------------------
(* Podman's stops *)

\* A set of numbers that is not empty has a least element.
LEMMA LeastNumber ==
    ASSUME NEW S, S \subseteq Nat, S # {}
    PROVE  \E i \in S : \A j \in S : i <= j
  <1>1. PICK i \in S : \A j \in S : ~(<<j, i>> \in OpToRel(<, Nat))
    BY WFMin, NatLessThanWellFounded
  <1>2. \A j \in S : ~(j < i)
    BY <1>1 DEF OpToRel
  <1> QED
    BY <1>2

Positions(arguments) == 0..(Len(arguments) + 2)
StopsOf(arguments, S) == [j \in Positions(arguments) |-> j \in S]

\* More stops reach more stops.
LEMMA StopsMonotone ==
    ASSUME NEW arguments, Sequence(arguments), NEW S, NEW T, S \subseteq T,
           NEW k \in Positions(arguments), StopsAt(arguments, k, StopsOf(arguments, S))
    PROVE  StopsAt(arguments, k, StopsOf(arguments, T))
  <1>1. Len(arguments) \in Nat
    BY SequenceFacts
  <1>2. \A j \in 1..Len(arguments) : j \in Positions(arguments)
    BY <1>1 DEF Positions
  <1>3. \A j \in 1..Len(arguments) : StopsOf(arguments, S)[j] => StopsOf(arguments, T)[j]
    BY <1>2 DEF StopsOf
  <1> QED
    BY <1>3 DEF StopsAt

\* The recursion of PodmanStops has a solution: the least set of positions
\* that its right-hand side does not enlarge.
LEMMA StopsExist ==
    ASSUME NEW arguments, Sequence(arguments)
    PROVE  \E f : f = [k \in Positions(arguments) |-> StopsAt(arguments, k, f)]
  <1> DEFINE D == Positions(arguments)
             Closed(S) == \A k \in D : StopsAt(arguments, k, StopsOf(arguments, S)) => k \in S
             least == {k \in D : \A S \in SUBSET D : Closed(S) => k \in S}
  <1>1. \A S \in SUBSET D : Closed(S) => least \subseteq S
    OBVIOUS
  <1>2. Closed(least)
    <2> SUFFICES ASSUME NEW k \in D, StopsAt(arguments, k, StopsOf(arguments, least)),
                        NEW S \in SUBSET D, Closed(S)
                 PROVE  k \in S
      OBVIOUS
    <2>1. StopsAt(arguments, k, StopsOf(arguments, S))
      <3>1. least \subseteq S
        BY <1>1
      <3> HIDE DEF least
      <3> QED
        BY <3>1, StopsMonotone
    <2> QED
      BY <2>1
  <1>3. ASSUME NEW k \in least
        PROVE  StopsAt(arguments, k, StopsOf(arguments, least))
    <2> SUFFICES ASSUME ~StopsAt(arguments, k, StopsOf(arguments, least))
                 PROVE  FALSE
      OBVIOUS
    <2> DEFINE S == least \ {k}
    <2>1. ASSUME NEW m \in D, StopsAt(arguments, m, StopsOf(arguments, S))
          PROVE  m \in S
      <3>1. S \subseteq least
        OBVIOUS
      <3>2. StopsAt(arguments, m, StopsOf(arguments, least))
        <4> HIDE DEF S, least
        <4> QED
          BY <2>1, <3>1, StopsMonotone
      <3>3. m \in least
        BY <3>2, <1>2
      <3> QED
        BY <3>2, <3>3
    <2>2. S \in SUBSET D
      OBVIOUS
    <2>3. k \in S
      BY <1>3, <2>1, <2>2
    <2> QED
      BY <2>3
  <1> HIDE DEF least
  <1>4. \A k \in D : k \in least <=> StopsAt(arguments, k, StopsOf(arguments, least))
    BY <1>2, <1>3
  <1>5. \A k \in D : StopsAt(arguments, k, StopsOf(arguments, least)) \in BOOLEAN
    BY DEF StopsAt
  <1>6. \A k \in D : (k \in least) = StopsAt(arguments, k, StopsOf(arguments, least))
    BY <1>4, <1>5
  <1>7. StopsOf(arguments, least) = [k \in D |-> StopsAt(arguments, k, StopsOf(arguments, least))]
    BY <1>6, Zenon DEF StopsOf
  <1> HIDE DEF D
  <1> QED
    BY <1>7 DEF D

\* What the recursion says of the set of stops: the first argument after the
\* verb, from every option the one it reaches, and no other.
LEMMA StopsFacts ==
    ASSUME NEW arguments, Sequence(arguments)
    PROVE  /\ PodmanStops(arguments) \subseteq 1..(Len(arguments) + 2)
           /\ FirstOption(arguments) \in 1..(Len(arguments) + 2) =>
                FirstOption(arguments) \in PodmanStops(arguments)
           /\ \A j \in PodmanStops(arguments) :
                j <= Len(arguments) /\ IsOption(arguments[j]) =>
                    j + PodmanReach(arguments[j]) \in PodmanStops(arguments)
           /\ \A k \in PodmanStops(arguments) :
                \/ k = FirstOption(arguments)
                \/ \E j \in PodmanStops(arguments) :
                     /\ j <= Len(arguments) /\ IsOption(arguments[j])
                     /\ j + PodmanReach(arguments[j]) = k
  <1> DEFINE n == Len(arguments)
             f == CHOOSE g : g = [k \in Positions(arguments) |-> StopsAt(arguments, k, g)]
  <1>1. f = [k \in Positions(arguments) |-> StopsAt(arguments, k, f)]
    BY StopsExist, Zenon
  <1>2. PodmanStops(arguments) = {k \in 1..(Len(arguments) + 2) : f[k]}
    BY DEF PodmanStops, Positions
  <1> HIDE DEF f
  <1>3. n \in Nat
    BY SequenceFacts
  <1>4. \A k \in 1..(n + 2) : f[k] = StopsAt(arguments, k, f)
    BY <1>1, <1>3 DEF Positions
  <1>5. \A k \in 1..(n + 2) : k \in PodmanStops(arguments) <=> StopsAt(arguments, k, f)
    BY <1>2, <1>4
  <1>6. PodmanStops(arguments) \subseteq 1..(n + 2)
    BY <1>2
  <1>7. n + 2 \in Nat /\ \A j \in 1..n : j \in 1..(n + 2)
    BY <1>3
  <1>8. \A a : PodmanReach(a) \in {1, 2}
    BY DEF PodmanReach
  <1> HIDE DEF n
  <1>9. FirstOption(arguments) \in 1..(n + 2) => FirstOption(arguments) \in PodmanStops(arguments)
    BY <1>5 DEF StopsAt
  <1>10. ASSUME NEW j \in PodmanStops(arguments), j <= n, IsOption(arguments[j])
         PROVE  j + PodmanReach(arguments[j]) \in PodmanStops(arguments)
    <2> DEFINE r == PodmanReach(arguments[j])
               k == j + r
    <2>1. r \in {1, 2}
      BY <1>8
    <2>2. j \in 1..n
      BY <1>3, <1>6, <1>10
    <2> HIDE DEF r
    <2>3. k \in 1..(n + 2) /\ j \in {k - 1, k - 2}
      BY <2>1, <2>2, <1>3
    <2>4. f[j]
      BY <1>2 DEF n
    <2>5. StopsAt(arguments, k, f)
      BY <2>2, <2>3, <2>4, <1>10 DEF StopsAt, r, n
    <2> QED
      BY <2>3, <2>5, <1>5 DEF r
  <1>11. ASSUME NEW k \in PodmanStops(arguments), k # FirstOption(arguments)
         PROVE  \E j \in PodmanStops(arguments) :
                  j <= n /\ IsOption(arguments[j]) /\ j + PodmanReach(arguments[j]) = k
    <2>1. StopsAt(arguments, k, f)
      BY <1>5, <1>6
    <2>2. PICK j \in {k - 1, k - 2} \cap 1..n :
                 IsOption(arguments[j]) /\ j + PodmanReach(arguments[j]) = k /\ f[j]
      BY <2>1, <1>11 DEF StopsAt, n
    <2>3. j \in PodmanStops(arguments)
      BY <2>2, <1>2, <1>7 DEF n
    <2>4. j <= n
      BY <2>2, <1>3
    <2> QED
      BY <2>2, <2>3, <2>4
  <1> QED
    BY <1>6, <1>9, <1>10, <1>11 DEF n

\* The scan is at a stop of Podman's, and every stop before it is an option
\* that reaches no further.
AtOptionAt(arguments, k) == k <= Len(arguments) /\ IsOption(arguments[k])
Passed(arguments, k) ==
    /\ k \in PodmanStops(arguments) /\ FirstOption(arguments) <= k
    /\ \A j \in PodmanStops(arguments) :
         j < k => AtOptionAt(arguments, j) /\ j + PodmanReach(arguments[j]) <= k

LEMMA FirstFacts ==
    ASSUME NEW arguments, Sequence(arguments)
    PROVE  /\ FirstOption(arguments) \in {0, 3, 4}
           /\ FirstOption(arguments) <= Len(arguments) + 1
  <1>1. Len(arguments) \in Nat
    BY SequenceFacts
  <1> QED
    BY <1>1 DEF FirstOption

\* Before the first stop there is none.
LEMMA PassedFirst ==
    ASSUME NEW arguments, Sequence(arguments), FirstOption(arguments) # 0
    PROVE  /\ Passed(arguments, FirstOption(arguments))
           /\ \A j \in PodmanStops(arguments) : ~(j < FirstOption(arguments))
  <1> DEFINE stops == PodmanStops(arguments)
             first == FirstOption(arguments)
             earlier == {j \in stops : j < first}
  <1>1. Len(arguments) \in Nat
    BY SequenceFacts
  <1>2. stops \subseteq Nat
    BY StopsFacts, <1>1
  <1>3. first \in stops /\ first \in Nat
    BY StopsFacts, FirstFacts, <1>1
  <1>4. \A k \in stops : k = first \/ \E j \in stops : j + PodmanReach(arguments[j]) = k
    BY StopsFacts
  <1>5. \A a : PodmanReach(a) \in {1, 2}
    BY DEF PodmanReach
  <1> HIDE DEF stops, first
  <1>6. earlier = {}
    <2> SUFFICES ASSUME earlier # {}
                 PROVE  FALSE
      OBVIOUS
    <2>1. PICK i \in earlier : \A j \in earlier : i <= j
      BY <1>2, LeastNumber
    <2>2. i \in Nat /\ i \in stops /\ i < first
      BY <1>2
    <2>3. PICK j \in stops : j + PodmanReach(arguments[j]) = i
      BY <2>2, <1>3, <1>4
    <2>4. j \in Nat /\ PodmanReach(arguments[j]) \in {1, 2}
      BY <1>2, <1>5
    <2>5. j < i
      BY <2>2, <2>3, <2>4
    <2>6. j \in earlier
      BY <2>2, <2>4, <2>5, <1>3
    <2> QED
      BY <2>1, <2>2, <2>4, <2>5, <2>6
  <1> QED
    BY <1>3, <1>6 DEF Passed, stops, first

\* An option takes the scan to the next stop.
LEMMA PassedStep ==
    ASSUME NEW arguments, Sequence(arguments), NEW k, Passed(arguments, k), AtOptionAt(arguments, k)
    PROVE  /\ Passed(arguments, k + PodmanReach(arguments[k]))
           /\ \A j \in PodmanStops(arguments) : ~(k < j /\ j < k + PodmanReach(arguments[k]))
  <1> DEFINE stops == PodmanStops(arguments)
             first == FirstOption(arguments)
             next == k + PodmanReach(arguments[k])
  <1>1. Len(arguments) \in Nat
    BY SequenceFacts
  <1>2. stops \subseteq Nat /\ first \in Nat
    BY StopsFacts, FirstFacts, <1>1
  <1>3. k \in stops /\ first <= k /\ k \in Nat
    BY <1>2 DEF Passed
  <1>4. \A i \in stops : i = first \/ \E j \in stops : j + PodmanReach(arguments[j]) = i
    BY StopsFacts
  <1>5. \A a : PodmanReach(a) \in {1, 2}
    BY DEF PodmanReach
  <1>6. next \in stops
    BY <1>3, StopsFacts DEF AtOptionAt
  <1>7. \A j \in stops : j < k => AtOptionAt(arguments, j) /\ j + PodmanReach(arguments[j]) <= k
    BY DEF Passed
  <1> HIDE DEF stops, first
  <1>8. PodmanReach(arguments[k]) \in {1, 2}
    BY <1>5
  <1>9. next \in Nat /\ k < next /\ next <= k + 2
    BY <1>3, <1>8
  <1>10. ASSUME NEW i \in stops, i < next, k < i
         PROVE  FALSE
    <2>1. i \in Nat /\ i # first /\ i = k + 1
      BY <1>2, <1>3, <1>9, <1>10
    <2>2. PICK j \in stops : j + PodmanReach(arguments[j]) = i
      BY <2>1, <1>4
    <2>3. j \in Nat /\ PodmanReach(arguments[j]) \in {1, 2}
      BY <1>2, <1>5
    <2>4. j < k \/ j = k
      BY <2>1, <2>2, <2>3, <1>3
    <2>5. CASE j < k
      BY <2>5, <2>2, <1>7, <1>10, <1>3, <2>1
    <2>6. CASE j = k
      BY <2>6, <2>2, <1>10, <2>1, <1>9
    <2> QED
      BY <2>4, <2>5, <2>6
  <1>11. ASSUME NEW j \in stops, j < next
         PROVE  AtOptionAt(arguments, j) /\ j + PodmanReach(arguments[j]) <= next
    <2>1. j \in Nat /\ PodmanReach(arguments[j]) \in {1, 2}
      BY <1>2, <1>5
    <2>2. j < k \/ j = k
      BY <1>3, <1>10, <1>11, <2>1
    <2>3. CASE j < k
      BY <2>3, <2>1, <1>3, <1>7, <1>9
    <2>4. CASE j = k
      BY <2>4, <1>9
    <2> QED
      BY <2>2, <2>3, <2>4
  <1>12. first <= next
    BY <1>2, <1>3, <1>9
  <1> QED
    BY <1>6, <1>10, <1>11, <1>12 DEF Passed, stops, first

\* Where the scan ends there is no further stop: it is at Podman's operand,
\* and has passed every mount.
MountsBefore(arguments, k) == {j \in PodmanMounts(arguments) : j < k}
LEMMA PassedEnd ==
    ASSUME NEW arguments, Sequence(arguments), NEW k, Passed(arguments, k), ~AtOptionAt(arguments, k)
    PROVE  /\ PodmanOperand(arguments)
                = IF k <= Len(arguments) /\ arguments[k].form = "--" THEN k + 1 ELSE k
           /\ PodmanMounts(arguments) = MountsBefore(arguments, k)
  <1> DEFINE stops == PodmanStops(arguments)
             first == FirstOption(arguments)
             later == {j \in stops : k < j}
  <1>1. Len(arguments) \in Nat
    BY SequenceFacts
  <1>2. stops \subseteq Nat /\ first \in Nat
    BY StopsFacts, FirstFacts, <1>1
  <1>3. k \in stops /\ first <= k /\ k \in Nat
    BY <1>2 DEF Passed
  <1>4. \A i \in stops : i = first \/ \E j \in stops : AtOptionAt(arguments, j) /\ j + PodmanReach(arguments[j]) = i
    BY StopsFacts DEF AtOptionAt
  <1>5. \A a : PodmanReach(a) \in {1, 2}
    BY DEF PodmanReach
  <1>6. \A j \in stops : j < k => AtOptionAt(arguments, j) /\ j + PodmanReach(arguments[j]) <= k
    BY DEF Passed
  <1>7. PodmanOptions(arguments) = {j \in stops : AtOptionAt(arguments, j)}
    BY DEF PodmanOptions, AtOptionAt
  <1>8. PodmanMounts(arguments) \subseteq PodmanOptions(arguments)
    BY DEF PodmanMounts
  <1> HIDE DEF stops, first
  <1>9. later = {}
    <2> SUFFICES ASSUME later # {}
                 PROVE  FALSE
      OBVIOUS
    <2>1. PICK i \in later : \A j \in later : i <= j
      BY <1>2, LeastNumber
    <2>2. i \in Nat /\ i \in stops /\ k < i /\ i # first
      BY <1>2, <1>3
    <2>3. PICK j \in stops : AtOptionAt(arguments, j) /\ j + PodmanReach(arguments[j]) = i
      BY <2>2, <1>4
    <2>4. j \in Nat /\ PodmanReach(arguments[j]) \in {1, 2} /\ j # k
      BY <1>2, <1>5, <2>3
    <2>5. ~(j < k)
      BY <2>2, <2>3, <1>6, <1>3
    <2>6. j \in later /\ j < i
      BY <2>2, <2>3, <2>4, <2>5, <1>3
    <2> QED
      BY <2>1, <2>2, <2>4, <2>6
  <1>10. \A j \in stops : j = k \/ (j < k /\ AtOptionAt(arguments, j))
    BY <1>2, <1>3, <1>6, <1>9
  <1>11. \A j \in stops : j \notin PodmanOptions(arguments) <=> j = k
    BY <1>3, <1>7, <1>10
  <1>12. (CHOOSE j \in stops : j \notin PodmanOptions(arguments)) = k
    BY <1>3, <1>11
  <1>13. \A j \in PodmanMounts(arguments) : j < k
    BY <1>7, <1>8, <1>10
  <1>14. PodmanMounts(arguments) = MountsBefore(arguments, k)
    BY <1>13 DEF MountsBefore
  <1>15. PodmanOperand(arguments) = IF k <= Len(arguments) /\ arguments[k].form = "--" THEN k + 1 ELSE k
    <2> DEFINE c == CHOOSE j \in PodmanStops(arguments) : j \notin PodmanOptions(arguments)
    <2>1. c = k
      BY <1>12 DEF stops
    <2>2. PodmanOperand(arguments) = IF c <= Len(arguments) /\ arguments[c].form = "--" THEN c + 1 ELSE c
      BY Zenon DEF PodmanOperand
    <2> HIDE DEF c
    <2> QED
      BY <2>1, <2>2
  <1> QED
    BY <1>14, <1>15

-----------------------------------------------------------------------------
(* One option *)

ValueOfOption(arguments, k) ==
    IF Inline(arguments[k]) THEN arguments[k].value ELSE arguments[k + 1].word
RelabelOf(arguments, k) == Option(arguments, k).relabel

\* An option without a value, or with one, is that for Podman.
LEMMA FlagFacts ==
    ASSUME NEW a
    PROVE  /\ is_create_flag_without_value(a) => ~Inline(a) /\ a.name \in PodmanFlags
           /\ is_create_flag_with_value(a.name) => a.name \notin PodmanFlags
           /\ MountOption(a) # "none" => a.name \notin PodmanFlags
           /\ MountOption(a) \in {"none", "volume", "mount"}
  <1>1. is_create_flag_without_value(a) => ~Inline(a) /\ a.name \in PodmanFlags
    BY DEF is_create_flag_without_value, Inline, PodmanFlags
  <1>2. is_create_flag_with_value(a.name) => a.name \notin PodmanFlags
    BY DEF is_create_flag_with_value, PodmanFlags
  <1>3. MountOption(a) # "none" => a.name \notin PodmanFlags
    BY DEF MountOption, PodmanFlags
  <1>4. MountOption(a) \in {"none", "volume", "mount"}
    BY DEF MountOption
  <1> QED
    BY <1>1, <1>2, <1>3, <1>4

\* An option that does not end the scan takes as many arguments as it does for
\* Podman, and declares a mount exactly if it does for Podman.
LEMMA OptionFacts ==
    ASSUME NEW arguments, Sequence(arguments), NEW k \in 1..Len(arguments), IsOption(arguments[k]),
           Option(arguments, k).end = "no"
    PROVE  /\ Option(arguments, k).takes = PodmanReach(arguments[k])
           /\ MountOption(arguments[k]) = "none" => RelabelOf(arguments, k) = Irrelevant
           /\ MountOption(arguments[k]) # "none" =>
                /\ Inline(arguments[k]) \/ k < Len(arguments)
                /\ RelabelOf(arguments, k)
                     = parse_create_mount_relabel(MountOption(arguments[k]), ValueOfOption(arguments, k))
  <1> DEFINE a == arguments[k]
             Takes(n, relabel) == [end |-> "no", takes |-> n, relabel |-> relabel]
             Ends(state) == [end |-> state, takes |-> 0, relabel |-> Irrelevant]
             missing == ~Inline(a) /\ k = Len(arguments)
  <1>1. Len(arguments) \in Nat /\ k \in Nat /\ k <= Len(arguments)
    BY SequenceFacts
  <1>2. /\ Ends("Malformed").end # "no" /\ Ends("Unavailable").end # "no"
        /\ \A n, r : Takes(n, r).takes = n /\ Takes(n, r).relabel = r
    OBVIOUS
  <1>3. Option(arguments, k) =
          IF MountOption(a) # "none"
          THEN IF missing THEN Ends("Malformed")
               ELSE IF Inline(a) THEN Takes(1, parse_create_mount_relabel(MountOption(a), a.value))
               ELSE Takes(2, parse_create_mount_relabel(MountOption(a), arguments[k + 1].word))
          ELSE IF is_create_flag_without_value(a) THEN Takes(1, Irrelevant)
          ELSE IF a.form \in {"short", "short+"} \/ ~is_create_flag_with_value(a.name)
          THEN Ends("Unavailable")
          ELSE IF missing THEN Ends("Malformed")
          ELSE Takes(IF Inline(a) THEN 1 ELSE 2, Irrelevant)
    BY Zenon DEF Option, Inline
  <1> HIDE DEF Takes, Ends
  <1>4. CASE MountOption(a) # "none"
    <2>1. ~missing
      BY <1>2, <1>3, <1>4
    <2>2. Inline(a) \/ k < Len(arguments)
      BY <2>1, <1>1
    <2>3. a.name \notin PodmanFlags
      BY <1>4, FlagFacts
    <2>4. CASE Inline(a)
      <3>1. Option(arguments, k) = Takes(1, parse_create_mount_relabel(MountOption(a), a.value))
        BY <1>3, <1>4, <2>1, <2>4
      <3> QED
        BY <3>1, <1>2, <1>4, <2>2, <2>4 DEF PodmanReach, RelabelOf, ValueOfOption
    <2>5. CASE ~Inline(a)
      <3>1. Option(arguments, k) = Takes(2, parse_create_mount_relabel(MountOption(a), arguments[k + 1].word))
        BY <1>3, <1>4, <2>1, <2>5
      <3> QED
        BY <3>1, <1>2, <1>4, <2>2, <2>3, <2>5 DEF PodmanReach, RelabelOf, ValueOfOption
    <2> QED
      BY <2>4, <2>5
  <1>5. CASE MountOption(a) = "none" /\ is_create_flag_without_value(a)
    <2>1. Option(arguments, k) = Takes(1, Irrelevant)
      BY <1>3, <1>5
    <2>2. a.name \in PodmanFlags
      BY <1>5, FlagFacts
    <2> QED
      BY <2>1, <2>2, <1>2, <1>5 DEF PodmanReach, RelabelOf
  <1>6. CASE MountOption(a) = "none" /\ ~is_create_flag_without_value(a)
    <2>1. ~(a.form \in {"short", "short+"} \/ ~is_create_flag_with_value(a.name))
      BY <1>2, <1>3, <1>6
    <2>2. ~missing
      BY <1>2, <1>3, <1>6, <2>1
    <2>3. Option(arguments, k) = Takes(IF Inline(a) THEN 1 ELSE 2, Irrelevant)
      BY <1>3, <1>6, <2>1, <2>2
    <2>4. a.name \notin PodmanFlags
      BY <2>1, FlagFacts
    <2> QED
      BY <2>3, <2>4, <1>2, <1>6 DEF PodmanReach, RelabelOf
  <1> QED
    BY <1>4, <1>5, <1>6

\* The values of parsed.
ParsedStates == {"Irrelevant", "Observed", "Malformed", "Unavailable"}
LEMMA Parses ==
    /\ Irrelevant.parsed = "Irrelevant" /\ \A s : Refuses(s).parsed = s
    /\ \A s, d, r : /\ Observes(s, d, r).parsed = "Observed"
                    /\ Observes(s, d, r).mount = [source |-> s, destination |-> d, relabel |-> r]
  BY DEF Irrelevant, Refuses, Observes

LEMMA FirstVerdict ==
    ASSUME NEW parts, Sequence(parts),
           {k \in DOMAIN parts : PartVerdict(parts, k) # "continue"} # {}
    PROVE  LET stops == {k \in DOMAIN parts : PartVerdict(parts, k) # "continue"}
           IN  PartVerdict(parts, CHOOSE k \in stops : \A j \in stops : k <= j) \in {"Malformed", "Unavailable"}
  <1> DEFINE stops == {k \in DOMAIN parts : PartVerdict(parts, k) # "continue"}
             first == CHOOSE k \in stops : \A j \in stops : k <= j
  <1>1. stops \subseteq Nat
    BY SequenceFacts
  <1>2. \E k \in stops : \A j \in stops : k <= j
    BY <1>1, LeastNumber
  <1>3. first \in stops
    BY <1>2, Zenon
  <1> HIDE DEF first
  <1>4. PartVerdict(parts, first) # "continue"
    BY <1>3
  <1>5. PartVerdict(parts, first) \in {"continue", "Malformed", "Unavailable"}
    BY DEF PartVerdict
  <1> QED
    BY <1>4, <1>5 DEF first

LEMMA ParsedValue ==
    ASSUME NEW kind, NEW v, IsValue(v)
    PROVE  parse_create_mount_relabel(kind, v).parsed \in ParsedStates
  <1>1. parse_volume_mount(v.colons).parsed \in ParsedStates
    <2> DEFINE c == v.colons
    <2>1. \/ parse_volume_mount(c) = Refuses("Malformed") \/ parse_volume_mount(c) = Irrelevant
          \/ parse_volume_mount(c) = Refuses("Unavailable")
          \/ parse_volume_mount(c) = Observes(c[1], c[2], relabel_from_tokens(c[3]))
      BY Zenon DEF parse_volume_mount
    <2> QED
      BY <2>1, Parses DEF ParsedStates
  <1>2. parse_structured_mount_relabel(v.parts).parsed \in ParsedStates
    <2> DEFINE stops == {k \in DOMAIN v.parts : PartVerdict(v.parts, k) # "continue"}
    <2>1. CASE stops # {}
      <3>1. parse_structured_mount_relabel(v.parts)
              = Refuses(PartVerdict(v.parts, CHOOSE k \in stops : \A j \in stops : k <= j))
        BY <2>1, Zenon DEF parse_structured_mount_relabel
      <3>2. PartVerdict(v.parts, CHOOSE k \in stops : \A j \in stops : k <= j) \in {"Malformed", "Unavailable"}
        BY <2>1, FirstVerdict DEF IsValue
      <3> QED
        BY <3>1, <3>2, Parses DEF ParsedStates
    <2>2. CASE stops = {}
      BY <2>2, Parses DEF parse_structured_mount_relabel, ParsedStates
    <2> QED
      BY <2>1, <2>2
  <1> QED
    BY <1>1, <1>2 DEF parse_create_mount_relabel

-----------------------------------------------------------------------------
(* The relabels recorded so far *)

\* The rank of a member, and what a larger member does to ranks.
LEMMA RankFacts ==
    ASSUME NEW S, IsFiniteSet(S), S \subseteq Nat
    PROVE  /\ \A p \in S : Rank(S, p) \in 1..Cardinality(S)
           /\ \A k \in Nat : (\A j \in S : j < k) =>
                /\ Cardinality(S \cup {k}) = Cardinality(S) + 1 /\ Rank(S \cup {k}, k) = Cardinality(S) + 1
                /\ \A p \in S : Rank(S \cup {k}, p) = Rank(S, p)
           /\ Cardinality(S) \in Nat
  <1>1. Cardinality(S) \in Nat
    BY FS_CardinalityType
  <1>2. ASSUME NEW p \in S
        PROVE  Rank(S, p) \in 1..Cardinality(S)
    <2> DEFINE T == {j \in S : j <= p}
    <2>1. T \subseteq S /\ p \in T
      OBVIOUS
    <2>2. IsFiniteSet(T) /\ Cardinality(T) <= Cardinality(S)
      BY <2>1, FS_Subset
    <2>3. Cardinality(T) \in Nat /\ Cardinality(T) # 0
      BY <2>1, <2>2, FS_CardinalityType, FS_EmptySet
    <2>4. Rank(S, p) = Cardinality(T)
      BY DEF Rank
    <2> HIDE DEF T
    <2> QED
      BY <1>1, <2>2, <2>3, <2>4
  <1>3. ASSUME NEW k \in Nat, \A j \in S : j < k
        PROVE  /\ Cardinality(S \cup {k}) = Cardinality(S) + 1 /\ Rank(S \cup {k}, k) = Cardinality(S) + 1
               /\ \A p \in S : Rank(S \cup {k}, p) = Rank(S, p)
    <2>1. k \notin S
      BY <1>3
    <2>2. Cardinality(S \cup {k}) = Cardinality(S) + 1
      BY <2>1, FS_AddElement
    <2>3. {j \in S \cup {k} : j <= k} = S \cup {k}
      <3>1. \A j \in S \cup {k} : j <= k
        BY <1>3
      <3> QED
        BY <3>1
    <2>4. \A p \in S : {j \in S \cup {k} : j <= p} = {j \in S : j <= p}
      BY <1>3
    <2>5. \A p \in S : Rank(S \cup {k}, p) = Rank(S, p)
      BY <2>4 DEF Rank
    <2>6. Rank(S \cup {k}, k) = Cardinality(S) + 1
      BY <2>2, <2>3 DEF Rank
    <2> QED
      BY <2>2, <2>5, <2>6
  <1> QED
    BY <1>1, <1>2, <1>3

OfState(arguments, S, state) == {k \in S : RelabelOf(arguments, k).parsed = state}

\* The list of relabels is that of the observed mounts, in their order.
TellsMounts(arguments, observed, r) ==
    /\ r.state = "Observed" /\ Sequence(r.mounts) /\ Len(r.mounts) = Cardinality(observed)
    /\ \A p \in observed : r.mounts[Rank(observed, p)] = RelabelOf(arguments, p).mount
    /\ \A i \in 1..Len(r.mounts) : \E p \in observed : r.mounts[i] = RelabelOf(arguments, p).mount

RelabelsOf(arguments, S, r) ==
    LET malformedOnes == OfState(arguments, S, "Malformed")
        unavailable == OfState(arguments, S, "Unavailable")
        observed == OfState(arguments, S, "Observed")
    IN  IF malformedOnes # {} THEN r.state = "Malformed"
        ELSE IF unavailable # {} \/ Cardinality(observed) > MaxRelabels THEN r.state = "Unavailable"
        ELSE TellsMounts(arguments, observed, r)

\* A relabel more, observed, on a list that tells the mounts before.
LEMMA TellsOneMore ==
    ASSUME NEW arguments, NEW observed, IsFiniteSet(observed), observed \subseteq Nat,
           NEW r, TellsMounts(arguments, observed, r), NEW k \in Nat, \A j \in observed : j < k,
           NEW s, s = [state |-> "Observed", mounts |-> Append(r.mounts, RelabelOf(arguments, k).mount)]
    PROVE  TellsMounts(arguments, observed \cup {k}, s)
  <1> DEFINE more == observed \cup {k}
             n == Len(r.mounts)
             mount == RelabelOf(arguments, k).mount
             MountAt(p) == RelabelOf(arguments, p).mount
  <1>1. /\ Sequence(r.mounts) /\ n = Cardinality(observed)
        /\ \A p \in observed : r.mounts[Rank(observed, p)] = MountAt(p)
        /\ \A i \in 1..n : \E p \in observed : r.mounts[i] = MountAt(p)
    BY DEF TellsMounts
  <1>2. s.state = "Observed" /\ s.mounts = Append(r.mounts, mount)
    OBVIOUS
  <1>3. /\ Sequence(s.mounts) /\ Len(s.mounts) = n + 1 /\ s.mounts[n + 1] = mount
        /\ \A j \in 1..n : s.mounts[j] = r.mounts[j]
    BY <1>1, <1>2, Appending
  <1>4. /\ \A p \in observed : Rank(observed, p) \in 1..n /\ Rank(more, p) = Rank(observed, p)
        /\ Cardinality(more) = n + 1 /\ Rank(more, k) = n + 1 /\ n \in Nat
    <2>1. \A p \in observed : Rank(observed, p) \in 1..Cardinality(observed)
      BY RankFacts
    <2>2. /\ Cardinality(more) = Cardinality(observed) + 1 /\ Rank(more, k) = Cardinality(observed) + 1
          /\ \A p \in observed : Rank(more, p) = Rank(observed, p)
          /\ Cardinality(observed) \in Nat
      BY RankFacts
    <2> HIDE DEF more, n
    <2> QED
      BY <1>1, <2>1, <2>2
  <1> HIDE DEF n, more, MountAt
  <1>5. \A p \in observed : s.mounts[Rank(more, p)] = MountAt(p)
    BY <1>1, <1>3, <1>4
  <1>6. s.mounts[Rank(more, k)] = MountAt(k)
    BY <1>3, <1>4 DEF MountAt
  <1>7. \A p \in more : p \in observed \/ p = k
    BY DEF more
  <1>8. \A p \in more : s.mounts[Rank(more, p)] = MountAt(p)
    BY <1>5, <1>6, <1>7
  <1>9. \A i \in 1..(n + 1) : i \in 1..n \/ i = n + 1
    BY <1>4
  <1>10. k \in more /\ \A p \in observed : p \in more
    BY DEF more
  <1>11. ASSUME NEW i \in 1..(n + 1)
         PROVE  \E p \in more : s.mounts[i] = MountAt(p)
    <2>1. CASE i \in 1..n
      BY <2>1, <1>1, <1>3, <1>10
    <2>2. CASE i = n + 1
      BY <2>2, <1>3, <1>10 DEF MountAt
    <2> QED
      BY <2>1, <2>2, <1>9
  <1> QED
    BY <1>2, <1>3, <1>4, <1>8, <1>11 DEF TellsMounts, more, MountAt

\* ParsedCreateMountRelabels::record keeps what the mounts before and this one
\* say, whatever their order.
LEMMA RecordStep ==
    ASSUME NEW arguments, NEW S, IsFiniteSet(S), S \subseteq Nat, NEW r, RelabelsOf(arguments, S, r),
           NEW k \in Nat, \A j \in S : j < k, RelabelOf(arguments, k).parsed \in ParsedStates
    PROVE  RelabelsOf(arguments, S \cup {k}, record(r, RelabelOf(arguments, k)))
  <1> DEFINE more == S \cup {k}
             Of(T, state) == OfState(arguments, T, state)
             parsed == RelabelOf(arguments, k)
             s == record(r, parsed)
             observed == Of(S, "Observed")
  <1>1. \A state : /\ parsed.parsed = state => Of(more, state) = Of(S, state) \cup {k}
                   /\ parsed.parsed # state => Of(more, state) = Of(S, state)
    BY DEF OfState
  <1>2. IsFiniteSet(observed) /\ observed \subseteq Nat /\ \A j \in observed : j < k
    <2>1. observed \subseteq S
      BY DEF OfState
    <2> QED
      BY <2>1, FS_Subset
  <1>3. /\ Cardinality(observed) \in Nat /\ Cardinality(observed \cup {k}) = Cardinality(observed) + 1
        /\ MaxRelabels \in Nat
    BY <1>2, RankFacts, BoundsAssumption
  <1>4. RelabelsOf(arguments, S, r) <=>
          IF Of(S, "Malformed") # {} THEN r.state = "Malformed"
          ELSE IF Of(S, "Unavailable") # {} \/ Cardinality(observed) > MaxRelabels THEN r.state = "Unavailable"
          ELSE TellsMounts(arguments, observed, r)
    BY DEF RelabelsOf
  <1>5. RelabelsOf(arguments, more, s) <=>
          IF Of(more, "Malformed") # {} THEN s.state = "Malformed"
          ELSE IF Of(more, "Unavailable") # {} \/ Cardinality(Of(more, "Observed")) > MaxRelabels
          THEN s.state = "Unavailable"
          ELSE TellsMounts(arguments, Of(more, "Observed"), s)
    BY DEF RelabelsOf
  <1>6. r.state \in {"Malformed", "Unavailable", "Observed"}
    BY <1>4 DEF TellsMounts
  <1>7. r.state = "Observed" => /\ Of(S, "Malformed") = {} /\ Of(S, "Unavailable") = {}
                                /\ ~(Cardinality(observed) > MaxRelabels)
                                /\ TellsMounts(arguments, observed, r)
    BY <1>4
  <1> HIDE DEF Of, more, parsed, s, observed
  <1>8. CASE parsed.parsed = "Irrelevant"
    <2>1. s = r
      BY <1>8 DEF s, record, parsed
    <2>2. Of(more, "Malformed") = Of(S, "Malformed") /\ Of(more, "Unavailable") = Of(S, "Unavailable")
      BY <1>1, <1>8
    <2>3. Of(more, "Observed") = observed
      BY <1>1, <1>8 DEF observed
    <2>4. RelabelsOf(arguments, more, s)
      BY <1>4, <1>5, <2>1, <2>2, <2>3
    <2> QED
      BY <2>4 DEF more, s, parsed
  <1>9. CASE parsed.parsed = "Malformed"
    <2>1. s.state = "Malformed"
      BY <1>9 DEF s, record, parsed
    <2>2. Of(more, "Malformed") # {}
      BY <1>1, <1>9
    <2>3. RelabelsOf(arguments, more, s)
      BY <1>5, <2>1, <2>2
    <2> QED
      BY <2>3 DEF more, s, parsed
  <1>10. CASE parsed.parsed = "Unavailable"
    <2>1. s = IF r.state = "Malformed" THEN r ELSE [state |-> "Unavailable", mounts |-> <<>>]
      BY <1>10 DEF s, record, parsed
    <2>2. Of(more, "Malformed") = Of(S, "Malformed") /\ Of(more, "Unavailable") # {}
      BY <1>1, <1>10
    <2>3. r.state = "Malformed" <=> Of(S, "Malformed") # {}
      BY <1>4 DEF TellsMounts
    <2>4. RelabelsOf(arguments, more, s)
      BY <1>5, <2>1, <2>2, <2>3
    <2> QED
      BY <2>4 DEF more, s, parsed
  <1>11. CASE parsed.parsed = "Observed"
    <2>1. /\ Of(more, "Malformed") = Of(S, "Malformed") /\ Of(more, "Unavailable") = Of(S, "Unavailable")
          /\ Of(more, "Observed") = observed \cup {k}
      BY <1>1, <1>11 DEF observed
    <2> DEFINE c == Cardinality(observed)
               d == Cardinality(Of(more, "Observed"))
    <2>0. c \in Nat /\ MaxRelabels \in Nat /\ d = c + 1
      BY <1>3, <2>1
    <2> HIDE DEF c, d
    <2>2. CASE r.state # "Observed"
      <3>1. s = r
        BY <1>11, <2>2 DEF s, record, parsed
      <3>2. IF Of(S, "Malformed") # {} THEN r.state = "Malformed"
            ELSE r.state = "Unavailable" /\ (Of(S, "Unavailable") # {} \/ Cardinality(observed) > MaxRelabels)
        BY <1>4, <2>2 DEF TellsMounts
      <3>3. Cardinality(observed) > MaxRelabels => Cardinality(Of(more, "Observed")) > MaxRelabels
        <4>1. c > MaxRelabels => d > MaxRelabels
          BY <2>0
        <4> QED
          BY <4>1 DEF c, d
      <3>4. RelabelsOf(arguments, more, s)
        BY <1>5, <2>1, <3>1, <3>2, <3>3
      <3> QED
        BY <3>4 DEF more, s, parsed
    <2>3. CASE r.state = "Observed" /\ Len(r.mounts) >= MaxRelabels
      <3>1. s.state = "Unavailable"
        BY <1>11, <2>3 DEF s, record, parsed
      <3>2. Len(r.mounts) = Cardinality(observed) /\ Of(S, "Malformed") = {}
        BY <1>7, <2>3 DEF TellsMounts
      <3>3. Cardinality(Of(more, "Observed")) > MaxRelabels
        <4>1. c >= MaxRelabels
          BY <2>3, <3>2 DEF c
        <4>2. d > MaxRelabels
          BY <2>0, <4>1
        <4> QED
          BY <4>2 DEF d
      <3>4. RelabelsOf(arguments, more, s)
        BY <1>5, <2>1, <3>1, <3>2, <3>3
      <3> QED
        BY <3>4 DEF more, s, parsed
    <2>4. CASE r.state = "Observed" /\ ~(Len(r.mounts) >= MaxRelabels)
      <3>1. s = [state |-> "Observed", mounts |-> Append(r.mounts, RelabelOf(arguments, k).mount)]
        BY <1>11, <2>4 DEF s, record, parsed
      <3>2. Len(r.mounts) = Cardinality(observed) /\ Of(S, "Malformed") = {} /\ Of(S, "Unavailable") = {}
        BY <1>7, <2>4 DEF TellsMounts
      <3>3. ~(Cardinality(Of(more, "Observed")) > MaxRelabels)
        <4>1. ~(c >= MaxRelabels)
          BY <2>4, <3>2 DEF c
        <4>2. ~(d > MaxRelabels)
          BY <2>0, <4>1
        <4> QED
          BY <4>2 DEF d
      <3>4. TellsMounts(arguments, observed \cup {k}, s)
        BY <1>2, <1>7, <2>4, <3>1, TellsOneMore
      <3>5. RelabelsOf(arguments, more, s)
        BY <1>5, <2>1, <3>2, <3>3, <3>4
      <3> QED
        BY <3>5 DEF more, s, parsed
    <2> QED
      BY <2>2, <2>3, <2>4
  <1> QED
    BY <1>8, <1>9, <1>10, <1>11 DEF ParsedStates, parsed

-----------------------------------------------------------------------------
(* The scan *)

NoRelabels == [state |-> "Observed", mounts |-> <<>>]

\* The arguments that passed bounded_create_command_values.
AllText(arguments) ==
    Sequence(arguments) /\ \A k \in 1..Len(arguments) : arguments[k].form # "other" /\ IsArgument(arguments[k])

\* The command is read to its end: the operand is Podman's, and the relabels
\* are those of Podman's mounts.
ReadTo(arguments, r, operand) ==
    /\ AllText(arguments) /\ PodmanOperand(arguments) <= Len(arguments)
    /\ arguments[PodmanOperand(arguments)].name = operand
    /\ RelabelsOf(arguments, PodmanMounts(arguments), r)

ScanInv ==
    /\ stage \in ToMounts \cup {"command", "scan"} => image = ""
    /\ stage \in ToMounts \cup {"command"} => relabels = NoRelabels
    /\ stage = "scan" => /\ AllText(Arguments) /\ Passed(Arguments, index)
                         /\ RelabelsOf(Arguments, MountsBefore(Arguments, index), relabels)
    /\ stage \in {"image_hint", "correlate"} \/ image # "" => ReadTo(Arguments, relabels, image)
    /\ stage \in {"image_hint", "correlate"} => native.command.json = "array"

\* The steps that do not decode the command leave what was read of it alone.
LEMMA CommandFrame ==
    Next /\ ~EvidenceNext => relabels' = relabels /\ image' = image
  <1>1. \A s, items, r : Turn(s, items, r) => relabels' = relabels /\ image' = image
    BY DEF Turn
  <1>2. \A s, items, f, n : Leave(s, items, f, n) => relabels' = relabels /\ image' = image
    BY DEF Leave
  <1>3. DecodeConfiguration \/ DecodeReferences \/ DecodeNetworkSettings \/ DecodeNetworking \/ DecodeHostBinds
        \/ DecodeMountList \/ DecodeDependencyList \/ DecodeSecretList \/ DecodeRelationships
          => relabels' = relabels /\ image' = image
    BY DEF DecodeConfiguration, DecodeReferences, DecodeNetworkSettings, DecodeNetworking, DecodeHostBinds,
           DecodeMountList, DecodeDependencyList, DecodeSecretList, DecodeRelationships
  <1>4. DecodeEnvironment \/ DecodeBinds \/ DecodeMounts \/ DecodeSecrets
          => relabels' = relabels /\ image' = image
    BY <1>1, <1>2, Zenon DEF DecodeEnvironment, DecodeBinds, DecodeMounts, DecodeSecrets
  <1>5. DecodeNetworks \/ DecodeAttachments \/ DecodeDependencies
          => relabels' = relabels /\ image' = image
    BY <1>1, <1>2, Zenon DEF DecodeNetworks, DecodeAttachments, DecodeDependencies
  <1> QED
    BY <1>3, <1>4, <1>5 DEF Next, EvidenceNext

\* The arguments of a command, as a sequence, and their shape.
LEMMA CommandFacts ==
    ASSUME TypeOK, native.command.json = "array"
    PROVE  /\ Sequence(Arguments) /\ Len(Arguments) \in Nat
           /\ \A k \in 1..Len(Arguments) : IsArgument(Arguments[k])
  <1>1. Sequence(Arguments)
    BY NativeLists, Lists DEF Arguments
  <1>2. Range(Arguments) = ItemsOf(native.command)
    BY DEF ItemsOf, Arguments
  <1>3. \A a \in ItemsOf(native.command) : IsArgument(a)
    BY ContainersAssumption DEF TypeOK
  <1> QED
    BY <1>1, <1>2, <1>3, SequenceFacts


\* An argument that is no string ends the parse before the scan.
LEMMA BoundedText ==
    ASSUME NEW arguments, Sequence(arguments), bounded_create_command_values(arguments) = "values"
    PROVE  \A k \in 1..Len(arguments) : arguments[k].form # "other"
  <1> DEFINE Over(k) == \/ arguments[k].form = "other"
                        \/ arguments[k].bytes > MaxValueBytes
                        \/ MapThenSumSet(LAMBDA j : arguments[j].bytes, 1..k) > MaxBytes
             over == {k \in DOMAIN arguments : Over(k)}
  <1>1. bounded_create_command_values(arguments) =
          IF Len(arguments) > MaxArguments THEN "Unavailable"
          ELSE IF over = {} THEN "values"
          ELSE IF arguments[CHOOSE k \in over : \A j \in over : k <= j].form = "other"
          THEN "Malformed"
          ELSE "Unavailable"
    BY Zenon DEF bounded_create_command_values
  <1>2. \A k : arguments[k].form = "other" => Over(k)
    BY Zenon
  <1> HIDE DEF Over
  <1>3. over = {}
    <2> HIDE DEF over
    <2> QED
      BY <1>1
  <1> QED
    BY <1>2, <1>3, SequenceFacts

LEMMA ScanInit == Init => ScanInv
  <1> SUFFICES ASSUME Init
               PROVE  ScanInv
    OBVIOUS
  <1>1. stage = "configuration" /\ image = "" /\ relabels = NoRelabels
    BY DEF Init, NoRelabels
  <1> QED
    BY <1>1 DEF ScanInv

\* The options before the scan's position, one more mount or none.
LEMMA MountsGrow ==
    ASSUME NEW arguments, Sequence(arguments), NEW k, Passed(arguments, k), AtOptionAt(arguments, k),
           NEW next, next = k + PodmanReach(arguments[k])
    PROVE  /\ k \in 1..Len(arguments) /\ Passed(arguments, next)
           /\ k \in PodmanMounts(arguments) =>
                MountsBefore(arguments, next) = MountsBefore(arguments, k) \cup {k}
           /\ k \notin PodmanMounts(arguments) =>
                MountsBefore(arguments, next) = MountsBefore(arguments, k)
           /\ k \in PodmanMounts(arguments) <=>
                /\ MountOption(arguments[k]) # "none"
                /\ Inline(arguments[k]) \/ k < Len(arguments)
           /\ IsFiniteSet(MountsBefore(arguments, k)) /\ MountsBefore(arguments, k) \subseteq Nat
           /\ \A j \in MountsBefore(arguments, k) : j < k
  <1> DEFINE stops == PodmanStops(arguments)
             mounts == PodmanMounts(arguments)
             n == Len(arguments)
  <1>1. n \in Nat
    BY SequenceFacts
  <1>2. k \in stops /\ k \in 1..n
    BY <1>1, StopsFacts DEF Passed, AtOptionAt
  <1>3. Passed(arguments, next)
    BY PassedStep
  <1>4. \A j \in stops : j < next => j + PodmanReach(arguments[j]) <= next
    BY <1>3 DEF Passed
  <1>5. \A j \in stops : j < k => j + PodmanReach(arguments[j]) <= k
    BY DEF Passed
  <1>6. PodmanReach(arguments[k]) \in {1, 2}
    BY DEF PodmanReach
  <1>7. next \in Nat /\ k < next
    BY <1>2, <1>6
  <1>8. stops \subseteq Nat
    BY <1>1, StopsFacts
  <1>9. mounts = {j \in stops : /\ j <= Len(arguments) /\ IsOption(arguments[j])
                                /\ MountOption(arguments[j]) # "none"
                                /\ Inline(arguments[j]) \/ j < Len(arguments)}
    BY DEF PodmanMounts, PodmanOptions
  <1>10. k \in mounts <=> MountOption(arguments[k]) # "none" /\ (Inline(arguments[k]) \/ k < n)
    BY <1>2, <1>9 DEF AtOptionAt
  <1>11. mounts \subseteq stops
    BY <1>9
  <1>12. \A j \in stops : j < next /\ ~(j < k) => j = k
    <2>1. \A j \in stops : ~(k < j /\ j < next)
      BY PassedStep
    <2> QED
      BY <2>1, <1>2, <1>8
  <1> HIDE DEF stops, mounts, n
  <1>13. \A j \in stops : j < next <=> (j < k \/ j = k)
    BY <1>2, <1>7, <1>8, <1>12
  <1>14. \A j \in mounts : j < next <=> (j < k \/ j = k)
    BY <1>11, <1>13
  <1>15. /\ k \in mounts => MountsBefore(arguments, next) = MountsBefore(arguments, k) \cup {k}
         /\ k \notin mounts => MountsBefore(arguments, next) = MountsBefore(arguments, k)
    BY <1>14 DEF MountsBefore, mounts
  <1>16. MountsBefore(arguments, k) \subseteq 1..k /\ \A j \in MountsBefore(arguments, k) : j < k
    <2>1. \A j \in stops : j \in Nat /\ j # 0
      BY <1>1, StopsFacts DEF stops
    <2>2. \A j \in MountsBefore(arguments, k) : j \in stops /\ j < k
      BY <1>11 DEF MountsBefore, mounts
    <2>3. k \in Nat
      BY <1>1, <1>2
    <2> QED
      BY <2>1, <2>2, <2>3
  <1>17. IsFiniteSet(1..k) /\ k \in Nat
    BY <1>2, FS_Interval
  <1>18. IsFiniteSet(MountsBefore(arguments, k)) /\ MountsBefore(arguments, k) \subseteq Nat
    BY <1>16, <1>17, FS_Subset
  <1>19. k \in mounts <=> MountOption(arguments[k]) # "none" /\ (Inline(arguments[k]) \/ k < Len(arguments))
    BY <1>10 DEF n
  <1> QED
    BY <1>2, <1>3, <1>15, <1>16, <1>18, <1>19 DEF mounts, n


LEMMA ScanParse ==
    ASSUME ShapeInv, ScanInv, ParseCommand
    PROVE  ScanInv'
  <1>0. TypeOK /\ ListsOK
    BY DEF ShapeInv
  <1>1. stage = "command" /\ image = "" /\ relabels = NoRelabels
    BY StageSets DEF ParseCommand, ScanInv
  <1>2. ASSUME NEW state, Conclude(state)
        PROVE  ScanInv'
    <2>1. stage' = "dependency_list" /\ image' = image
      BY <1>2 DEF Conclude, Begin
    <2> QED
      BY <1>1, <2>1, StageSets DEF ScanInv
  <1>3. CASE ~\E state : Conclude(state)
    <2>1. /\ container_create_command.json = "array" /\ FirstOption(Arguments) # 0
          /\ bounded_create_command_values(Arguments) = "values"
          /\ stage' = "scan" /\ index' = FirstOption(Arguments)
          /\ native' = native /\ relabels' = relabels /\ image' = image
      BY <1>3 DEF ParseCommand
    <2>2. native.command.json = "array"
      BY <2>1 DEF container_create_command, None, Other
    <2>3. Sequence(Arguments) /\ \A k \in 1..Len(Arguments) : IsArgument(Arguments[k])
      BY <1>0, <2>2, CommandFacts
    <2> DEFINE arguments == Arguments
               k == FirstOption(arguments)
    <2>4. AllText(arguments)
      BY <2>1, <2>3, BoundedText DEF AllText
    <2>5. Passed(arguments, k) /\ k \in {3, 4}
      <3> HIDE DEF arguments
      <3> QED
        BY <2>1, <2>4, PassedFirst, FirstFacts DEF AllText, arguments
    <2>6. MountsBefore(arguments, k) = {}
      <3>1. PodmanMounts(arguments) \subseteq PodmanStops(arguments)
        BY DEF PodmanMounts, PodmanOptions
      <3>2. \A j \in PodmanStops(arguments) : ~(j < k)
        <4> HIDE DEF arguments
        <4> QED
          BY <2>1, <2>4, PassedFirst DEF AllText, arguments
      <3> QED
        BY <3>1, <3>2 DEF MountsBefore
    <2>7. RelabelsOf(arguments, {}, NoRelabels)
      <3>1. \A s : OfState(arguments, {}, s) = {}
        BY DEF OfState
      <3>2. Cardinality({}) = 0 /\ ~(0 > MaxRelabels)
        BY FS_EmptySet, BoundsAssumption
      <3>3. TellsMounts(arguments, {}, NoRelabels)
        BY <3>2, ShortSequences DEF TellsMounts, NoRelabels
      <3> QED
        BY <3>1, <3>2, <3>3 DEF RelabelsOf
    <2>8. Arguments' = arguments /\ index' = k
      BY <2>1 DEF Arguments
    <2> HIDE DEF arguments, k
    <2> QED
      BY <1>1, <2>1, <2>4, <2>5, <2>6, <2>7, <2>8, StageSets DEF ScanInv
  <1> QED
    BY <1>2, <1>3


\* Each option's relabel, recorded, is one more of Podman's mounts or none.
LEMMA RecordOption ==
    ASSUME NEW arguments, AllText(arguments), NEW k, Passed(arguments, k), AtOptionAt(arguments, k),
           Option(arguments, k).end = "no", NEW r, RelabelsOf(arguments, MountsBefore(arguments, k), r),
           NEW next, next = k + Option(arguments, k).takes
    PROVE  /\ Passed(arguments, next)
           /\ RelabelsOf(arguments, MountsBefore(arguments, next), record(r, RelabelOf(arguments, k)))
  <1> DEFINE before == MountsBefore(arguments, k)
             after == MountsBefore(arguments, next)
             reach == k + PodmanReach(arguments[k])
  <1>1. Sequence(arguments) /\ Len(arguments) \in Nat
    BY SequenceFacts DEF AllText
  <1>2. /\ k \in 1..Len(arguments) /\ Passed(arguments, reach)
        /\ k \in PodmanMounts(arguments) => MountsBefore(arguments, reach) = before \cup {k}
        /\ k \notin PodmanMounts(arguments) => MountsBefore(arguments, reach) = before
        /\ k \in PodmanMounts(arguments) <=>
             MountOption(arguments[k]) # "none" /\ (Inline(arguments[k]) \/ k < Len(arguments))
        /\ IsFiniteSet(before) /\ before \subseteq Nat /\ \A j \in before : j < k
    BY <1>1, MountsGrow
  <1>3. /\ Option(arguments, k).takes = PodmanReach(arguments[k])
        /\ MountOption(arguments[k]) = "none" => RelabelOf(arguments, k) = Irrelevant
        /\ MountOption(arguments[k]) # "none" =>
             /\ Inline(arguments[k]) \/ k < Len(arguments)
             /\ RelabelOf(arguments, k)
                  = parse_create_mount_relabel(MountOption(arguments[k]), ValueOfOption(arguments, k))
    BY <1>1, <1>2, OptionFacts DEF AtOptionAt
  <1>4. next = reach
    BY <1>3
  <1>5. k \in Nat
    BY <1>1, <1>2
  <1> HIDE DEF before
  <1>6. CASE MountOption(arguments[k]) # "none"
    <2>1. after = before \cup {k}
      BY <1>2, <1>3, <1>4, <1>6
    <2>2. IsValue(ValueOfOption(arguments, k))
      <3>1. CASE Inline(arguments[k])
        BY <3>1, <1>2 DEF AllText, IsArgument, ValueOfOption
      <3>2. CASE ~Inline(arguments[k])
        <4>1. k + 1 \in 1..Len(arguments)
          BY <3>2, <1>1, <1>2, <1>3, <1>6
        <4> QED
          BY <3>2, <4>1 DEF AllText, IsArgument, ValueOfOption
      <3> QED
        BY <3>1, <3>2
    <2>3. RelabelOf(arguments, k).parsed \in ParsedStates
      BY <2>2, <1>3, <1>6, ParsedValue
    <2>4. RelabelsOf(arguments, before, r)
      BY DEF before
    <2>5. RelabelsOf(arguments, before \cup {k}, record(r, RelabelOf(arguments, k)))
      BY <1>2, <1>5, <2>3, <2>4, RecordStep
    <2> QED
      BY <1>2, <1>4, <2>1, <2>5
  <1>7. CASE MountOption(arguments[k]) = "none"
    <2>1. after = before
      BY <1>2, <1>4, <1>7
    <2>2. record(r, Irrelevant) = r
      BY DEF record, Irrelevant
    <2>3. record(r, RelabelOf(arguments, k)) = r
      BY <1>3, <1>7, <2>2
    <2> QED
      BY <1>2, <1>4, <2>1, <2>3 DEF before
  <1> QED
    BY <1>6, <1>7

LEMMA ScanScan ==
    ASSUME ShapeInv, ScanInv, ScanOption
    PROVE  ScanInv'
  <1>1. stage = "scan" /\ image = "" /\ index <= Len(Arguments) /\ IsOption(Arguments[index])
    BY DEF ScanOption, ScanInv, AtOption
  <1>2. /\ AllText(Arguments) /\ Passed(Arguments, index)
        /\ RelabelsOf(Arguments, MountsBefore(Arguments, index), relabels)
    BY <1>1 DEF ScanInv
  <1>3. ASSUME NEW state, Conclude(state)
        PROVE  ScanInv'
    <2>1. stage' = "dependency_list" /\ image' = image
      BY <1>3 DEF Conclude, Begin
    <2> QED
      BY <1>1, <2>1, StageSets DEF ScanInv
  <1>4. CASE ~\E state : Conclude(state)
    <2>1. /\ Option(Arguments, index).end = "no" /\ stage' = stage
          /\ relabels' = record(relabels, RelabelOf(Arguments, index))
          /\ index' = index + Option(Arguments, index).takes
          /\ native' = native /\ image' = image
      BY <1>4 DEF ScanOption, RelabelOf
    <2> DEFINE arguments == Arguments
               k == index
               next == index'
               r == relabels
    <2>2. AllText(arguments) /\ Passed(arguments, k) /\ AtOptionAt(arguments, k)
      BY <1>1, <1>2 DEF AtOptionAt
    <2>3. /\ Option(arguments, k).end = "no" /\ next = k + Option(arguments, k).takes
          /\ RelabelsOf(arguments, MountsBefore(arguments, k), r)
      BY <1>2, <2>1
    <2>4. Arguments' = arguments /\ relabels' = record(r, RelabelOf(arguments, k))
      BY <2>1 DEF Arguments
    <2>5. stage' = "scan" /\ image' = ""
      BY <1>1, <2>1
    <2>6. next = index'
      OBVIOUS
    <2> HIDE DEF arguments, k, next, r
    <2>7. Passed(arguments, next) /\ RelabelsOf(arguments, MountsBefore(arguments, next), record(r, RelabelOf(arguments, k)))
      BY <2>2, <2>3, RecordOption
    <2> QED
      BY <2>2, <2>4, <2>5, <2>6, <2>7, StageSets DEF ScanInv
  <1> QED
    BY <1>3, <1>4

LEMMA ScanEnd ==
    ASSUME ShapeInv, ScanInv, EndOptions
    PROVE  ScanInv'
  <1>1. stage = "scan" /\ image = "" /\ ~(index <= Len(Arguments) /\ IsOption(Arguments[index]))
    BY DEF EndOptions, ScanInv, AtOption
  <1>2. /\ AllText(Arguments) /\ Passed(Arguments, index)
        /\ RelabelsOf(Arguments, MountsBefore(Arguments, index), relabels)
    BY <1>1 DEF ScanInv
  <1>3. ASSUME NEW state, Conclude(state)
        PROVE  ScanInv'
    <2>1. stage' = "dependency_list" /\ image' = image
      BY <1>3 DEF Conclude, Begin
    <2> QED
      BY <1>1, <2>1, StageSets DEF ScanInv
  <1>4. CASE ~\E state : Conclude(state)
    <2> DEFINE arguments == Arguments
               k == index
               r == relabels
               operand == IF k <= Len(arguments) /\ arguments[k].form = "--" THEN k + 1 ELSE k
    <2>1. /\ ~(operand > Len(arguments)) /\ image' = arguments[operand].name
          /\ Begin("image_hint") /\ native' = native /\ relabels' = r
      BY <1>4 DEF EndOptions
    <2>2. stage' = "image_hint" /\ Arguments' = arguments
      BY <2>1 DEF Begin, Arguments
    <2>3. /\ AllText(arguments) /\ Passed(arguments, k) /\ ~AtOptionAt(arguments, k)
          /\ RelabelsOf(arguments, MountsBefore(arguments, k), r)
      BY <1>1, <1>2 DEF AtOptionAt
    <2>4. k \in Nat
      BY DEF ShapeInv, TypeOK
    <2>9. native'.command.json = "array"
      BY <1>1, <2>1 DEF ShapeInv, ListsOK
    <2> HIDE DEF arguments, k, r
    <2>5. Sequence(arguments) /\ Len(arguments) \in Nat
      BY <2>3, SequenceFacts DEF AllText
    <2>6. PodmanOperand(arguments) = operand /\ PodmanMounts(arguments) = MountsBefore(arguments, k)
      BY <2>3, <2>5, PassedEnd
    <2>7. operand <= Len(arguments)
      BY <2>1, <2>4, <2>5
    <2>8. ReadTo(arguments, r, image')
      <3> HIDE DEF operand
      <3> QED
        BY <2>1, <2>3, <2>6, <2>7 DEF ReadTo
    <2> QED
      BY <2>1, <2>2, <2>8, <2>9, StageSets DEF ScanInv
  <1> QED
    BY <1>3, <1>4

LEMMA ScanStep == ShapeInv /\ ScanInv /\ [Next]_vars => ScanInv'
  <1>0. ScanInv /\ UNCHANGED vars => ScanInv'
    <2> SUFFICES ASSUME ScanInv, UNCHANGED vars
                 PROVE  ScanInv'
      OBVIOUS
    <2>1. /\ native' = native /\ stage' = stage /\ index' = index /\ relabels' = relabels /\ image' = image
      BY DEF vars
    <2> QED
      BY <2>1 DEF ScanInv, Arguments
  <1> SUFFICES ASSUME ShapeInv, ScanInv, Next
               PROVE  ScanInv'
    BY <1>0
  <1>1. Frame /\ Flow /\ stage \in Stages
    BY FrameStep DEF ShapeInv, TypeOK
  <1>2. native' = native /\ Arguments' = Arguments
    BY <1>1 DEF Frame, Arguments
  <1>3. CASE ~EvidenceNext
    <2>1. relabels' = relabels /\ image' = image
      BY <1>3, CommandFrame
    <2>2. stage \notin {"command", "scan", "image_hint", "correlate"}
      BY <1>3, StageActions
    <2>3. /\ stage \in ToMounts => stage' \in ToMounts \cup {"command"}
          /\ stage \notin ToMounts => stage' \notin ToMounts \cup EvidenceStages
      BY <1>1, <2>2, StageSets DEF Flow, EvidenceStages
    <2>4. stage' \notin {"scan", "image_hint", "correlate"}
      BY <2>3, StageSets DEF EvidenceStages
    <2>5. stage' \in ToMounts \cup {"command", "scan"} => stage \in ToMounts
      BY <2>3, <2>4 DEF EvidenceStages
    <2> QED
      BY <1>2, <2>1, <2>4, <2>5 DEF ScanInv
  <1>4. CASE DecodeImageHint \/ CorrelateMount \/ EndCorrelation
    <2>1. /\ stage \in {"image_hint", "correlate"} /\ relabels' = relabels /\ image' = image
          /\ stage' \in {"correlate", "dependency_list"}
      BY <1>4 DEF DecodeImageHint, CorrelateMount, EndCorrelation, Evidence, Begin
    <2>2. ReadTo(Arguments, relabels, image) /\ native.command.json = "array"
      BY <2>1 DEF ScanInv
    <2> QED
      BY <1>2, <2>1, <2>2, StageSets DEF ScanInv
  <1> QED
    BY <1>3, <1>4, ScanParse, ScanScan, ScanEnd DEF EvidenceNext

\* A creation command that parses is read as Podman reads it: parse_create_command
\* stops where Podman stops, takes its operand for the image, and what it keeps
\* of the mounts does not depend on their order.
THEOREM CommandIsReadAsPodman == Spec => []CommandReadAsPodman
  <1> DEFINE Inv == ShapeInv /\ ScanInv
  <1>1. Init => Inv
    BY ShapeInit, ScanInit
  <1>2. Inv /\ [Next]_vars => Inv'
    BY ShapeStep, ScanStep
  <1>3. Inv => CommandReadAsPodman
    <2> SUFFICES ASSUME ScanInv, image # ""
                 PROVE  CommandReadAsPodman
      BY DEF CommandReadAsPodman, ScannerReadsAsPodman, RelabelsOrderFree
    <2>1. ReadTo(Arguments, relabels, image)
      BY DEF ScanInv
    <2>2. ScannerReadsAsPodman
      BY <2>1 DEF ReadTo, ScannerReadsAsPodman
    <2> DEFINE Of(state) == {k \in PodmanMounts(Arguments) : Option(Arguments, k).relabel.parsed = state}
    <2>3. \A state : OfState(Arguments, PodmanMounts(Arguments), state) = Of(state)
      BY DEF OfState, RelabelOf
    <2>4. IF Of("Malformed") # {} THEN relabels.state = "Malformed"
          ELSE IF Of("Unavailable") # {} \/ Cardinality(Of("Observed")) > MaxRelabels
          THEN relabels.state = "Unavailable"
          ELSE TellsMounts(Arguments, Of("Observed"), relabels)
      <3> HIDE DEF Of
      <3> QED
        BY <2>1, <2>3 DEF ReadTo, RelabelsOf
    <2>5. TellsMounts(Arguments, Of("Observed"), relabels) =>
            relabels.state = "Observed" /\ Len(relabels.mounts) = Cardinality(Of("Observed"))
      <3> HIDE DEF Of
      <3> QED
        BY DEF TellsMounts
    <2>6. RelabelsOrderFree
      BY <2>4, <2>5, Zenon DEF RelabelsOrderFree
    <2> QED
      BY <2>2, <2>6 DEF CommandReadAsPodman
  <1> HIDE DEF Inv
  <1> QED
    BY <1>1, <1>2, <1>3, PTL DEF Spec


-----------------------------------------------------------------------------
(* What a mount option asks for *)

LabelsOfColons(colons) == IF Len(colons) < 3 THEN {} ELSE Labels(colons[3])
DestinationsOfColons(colons) == {colons[j] : j \in {2} \cap DOMAIN colons}

\* A value of --volume has one to three parts.
LEMMA ColonFacts ==
    ASSUME NEW v, IsValue(v)
    PROVE  Len(v.colons) \in {1, 2, 3} /\ DOMAIN v.colons = 1..Len(v.colons)
  <1> DEFINE c == v.colons
  <1>1. c = <<c[1]>> \/ c = <<c[1], c[2]>> \/ c = <<c[1], c[2], c[3]>>
    BY DEF IsValue
  <1> HIDE DEF c
  <1>2. CASE c = <<c[1]>>
    <2>1. \A x : Len(<<x>>) = 1 /\ DOMAIN <<x>> = 1..1
      OBVIOUS
    <2> QED
      BY <1>2, <2>1 DEF c
  <1>3. CASE c = <<c[1], c[2]>>
    <2>1. \A x, y : Len(<<x, y>>) = 2 /\ DOMAIN <<x, y>> = 1..2
      OBVIOUS
    <2> QED
      BY <1>3, <2>1 DEF c
  <1>4. CASE c = <<c[1], c[2], c[3]>>
    <2>1. \A x, y, z : Len(<<x, y, z>>) = 3 /\ DOMAIN <<x, y, z>> = 1..3
      OBVIOUS
    <2> QED
      BY <1>4, <2>1 DEF c
  <1> QED
    BY <1>1, <1>2, <1>3, <1>4

LEMMA VolumeMeant ==
    ASSUME NEW v, IsValue(v), NEW m, IsValue(m), DOMAIN m.colons = DOMAIN v.colons,
           \A j \in DOMAIN v.colons \ {1} : m.colons[j] = v.colons[j]
    PROVE  LET p == parse_volume_mount(v.colons)
           IN  /\ p.parsed = "Irrelevant" => LabelsOfColons(m.colons) = {}
               /\ p.parsed = "Observed" =>
                    /\ LabelsOfColons(m.colons) = {p.mount.relabel}
                    /\ DestinationsOfColons(m.colons) = {p.mount.destination}
                    /\ p.mount.source = v.colons[1]
  <1> DEFINE c == v.colons
             d == m.colons
             label == relabel_from_tokens(c[3])
             p == parse_volume_mount(c)
  <1>1. /\ Len(c) \in {1, 2, 3} /\ DOMAIN c = 1..Len(c)
        /\ Len(d) \in {1, 2, 3} /\ DOMAIN d = 1..Len(d)
    BY ColonFacts
  <1>2. DOMAIN d = DOMAIN c /\ \A j \in DOMAIN c \ {1} : d[j] = c[j]
    OBVIOUS
  <1>3. p = IF Len(c) = 1 \/ (c[1] = "" \/ c[2] = "") THEN Refuses("Malformed")
            ELSE IF Len(c) = 2 THEN Irrelevant
            ELSE IF label = "none" THEN Irrelevant
            ELSE IF label = "conflict" THEN Refuses("Unavailable")
            ELSE Observes(c[1], c[2], label)
    BY Zenon DEF parse_volume_mount
  <1>4. label # "conflict" => Labels(c[3]) = Claimed(label)
    BY TokenLabels
  <1> HIDE DEF c, d, label, p
  <1>5. Len(d) = Len(c)
    <2> DEFINE a == Len(c)
               b == Len(d)
    <2>1. a \in {1, 2, 3} /\ b \in {1, 2, 3} /\ 1..a = 1..b
      BY <1>1, <1>2
    <2> HIDE DEF a, b
    <2>2. a \in 1..b /\ b \in 1..a
      BY <2>1
    <2>3. a = b
      BY <2>1, <2>2
    <2> QED
      BY <2>3 DEF a, b
  <1>6. /\ Len(c) = 3 => d[3] = c[3] /\ d[2] = c[2] /\ 2 \in DOMAIN d /\ ~(Len(d) < 3)
        /\ Len(c) = 2 => Len(d) < 3
    <2>1. /\ Len(c) = 3 => DOMAIN c = 1..3 /\ DOMAIN d = 1..3 /\ Len(d) = 3
          /\ Len(c) = 2 => Len(d) = 2
      BY <1>1, <1>5
    <2>2. 2 \in 1..3 /\ 3 \in 1..3 /\ 2 # 1 /\ 3 # 1 /\ 2 < 3 /\ ~(3 < 3)
      OBVIOUS
    <2>3. Len(c) = 3 => d[3] = c[3] /\ d[2] = c[2] /\ 2 \in DOMAIN d
      BY <2>1, <2>2, <1>2
    <2>4. (Len(c) = 3 => ~(Len(d) < 3)) /\ (Len(c) = 2 => Len(d) < 3)
      BY <2>1, <2>2
    <2> QED
      BY <2>3, <2>4
  <1>7. CASE Len(c) = 1 \/ (c[1] = "" \/ c[2] = "")
    <2>1. p = Refuses("Malformed")
      BY <1>3, <1>7
    <2> QED
      BY <2>1, Parses DEF c, d, p
  <1>8. CASE ~(Len(c) = 1 \/ (c[1] = "" \/ c[2] = "")) /\ Len(c) = 2
    <2>1. p = Irrelevant /\ LabelsOfColons(d) = {}
      BY <1>3, <1>6, <1>8 DEF LabelsOfColons
    <2> QED
      BY <2>1, Parses DEF c, d, p
  <1>9. CASE ~(Len(c) = 1 \/ (c[1] = "" \/ c[2] = "")) /\ Len(c) = 3
    <2>0. Len(c) # 2 /\ ~(Len(c) = 1 \/ (c[1] = "" \/ c[2] = ""))
      <3>1. Len(c) = 3
        BY <1>9, Zenon
      <3>2. Len(c) # 2
        BY <3>1
      <3> QED
        BY <1>9, <3>2, Zenon
    <2>1. LabelsOfColons(d) = Labels(c[3]) /\ DestinationsOfColons(d) = {c[2]}
      <3>1. LabelsOfColons(d) = Labels(d[3])
        BY <1>6, <1>9, Zenon DEF LabelsOfColons
      <3>2. {2} \cap DOMAIN d = {2}
        BY <1>6, <1>9
      <3>3. DestinationsOfColons(d) = {d[2]}
        BY <3>2 DEF DestinationsOfColons
      <3> QED
        BY <1>6, <1>9, <3>1, <3>3
    <2>2. CASE label = "none"
      <3>1. p = Irrelevant /\ LabelsOfColons(d) = {}
        BY <1>3, <1>4, <2>0, <2>1, <2>2 DEF Claimed
      <3> QED
        BY <3>1, Parses DEF c, d, p
    <2>3. CASE label = "conflict"
      <3>1. p = Refuses("Unavailable")
        BY <1>3, <2>0, <2>3
      <3> QED
        BY <3>1, Parses DEF c, d, p
    <2>4. CASE label \notin {"none", "conflict"}
      <3>1. p = Observes(c[1], c[2], label) /\ LabelsOfColons(d) = {label}
        BY <1>3, <1>4, <2>0, <2>1, <2>4 DEF Claimed
      <3>2. p.parsed = "Observed" /\ p.mount = [source |-> c[1], destination |-> c[2], relabel |-> label]
        BY <3>1, Parses
      <3> QED
        BY <2>1, <3>1, <3>2 DEF c, d, p
    <2> QED
      BY <2>2, <2>3, <2>4
  <1> QED
    BY <1>1, <1>7, <1>8, <1>9

\* Where no part has a verdict a key is set at most once.
LEMMA SetOnce ==
    ASSUME NEW parts, Sequence(parts), NEW keys \in {SourceKeys, DestinationKeys, {"relabel"}},
           \A k \in DOMAIN parts : PartVerdict(parts, k) = "continue",
           NEW n, n = Len(parts) + 1
    PROVE  /\ Setting(parts, keys, n) = {} => Given(parts, keys) = {}
           /\ Setting(parts, keys, n) # {} =>
                Given(parts, keys) = {parts[CHOOSE j \in Setting(parts, keys, n) : TRUE].value}
  <1> DEFINE S == Setting(parts, keys, n)
             c == CHOOSE j \in S : TRUE
  <1>1. Len(parts) \in Nat /\ DOMAIN parts = 1..Len(parts) /\ n - 1 = Len(parts)
    BY SequenceFacts
  <1>2. S = {j \in DOMAIN parts : ~parts[j].bare /\ parts[j].key \in keys}
    BY <1>1 DEF Setting
  <1>3. \A j \in S : Setting(parts, keys, j) = {}
    <2> SUFFICES ASSUME NEW j \in S
                 PROVE  Setting(parts, keys, j) = {}
      OBVIOUS
    <2>1. PartVerdict(parts, j) = "continue" /\ ~parts[j].bare /\ parts[j].key \in keys
      BY <1>2
    <2> HIDE DEF S
    <2>2. CASE keys = SourceKeys
      BY <2>1, <2>2 DEF PartVerdict
    <2>3. CASE keys = DestinationKeys
      <3>1. parts[j].key \notin SourceKeys
        BY <2>1, <2>3 DEF SourceKeys, DestinationKeys
      <3> QED
        BY <2>1, <2>3, <3>1 DEF PartVerdict
    <2>4. CASE keys = {"relabel"}
      <3>1. parts[j].key \notin SourceKeys /\ parts[j].key \notin DestinationKeys /\ parts[j].key = "relabel"
        BY <2>1, <2>4 DEF SourceKeys, DestinationKeys
      <3> QED
        BY <2>1, <2>4, <3>1 DEF PartVerdict
    <2> QED
      BY <2>2, <2>3, <2>4
  <1>4. \A i, j \in S : i = j
    <2> SUFFICES ASSUME NEW i \in S, NEW j \in S, i < j
                 PROVE  FALSE
      BY <1>1, <1>2
    <2>1. i \in 1..(j - 1) /\ ~parts[i].bare /\ parts[i].key \in keys
      BY <1>1, <1>2
    <2>2. i \in Setting(parts, keys, j)
      BY <2>1 DEF Setting
    <2> QED
      BY <2>2, <1>3
  <1>5. Given(parts, keys) = {parts[j].value : j \in S}
    BY <1>2 DEF Given
  <1>6. S # {} => c \in S
    BY Zenon
  <1> HIDE DEF c, S
  <1>7. S # {} => S = {c}
    BY <1>4, <1>6
  <1>8. S = {} => Given(parts, keys) = {}
    BY <1>5
  <1>9. S # {} => Given(parts, keys) = {parts[c].value}
    BY <1>5, <1>7
  <1> QED
    BY <1>8, <1>9 DEF c, S


LEMMA StructuredMeant ==
    ASSUME NEW parts, Sequence(parts)
    PROVE  LET p == parse_structured_mount_relabel(parts)
           IN  /\ p.parsed = "Irrelevant" => Given(parts, {"relabel"}) = {}
               /\ p.parsed = "Observed" =>
                    /\ Given(parts, {"relabel"}) = {p.mount.relabel}
                    /\ Given(parts, DestinationKeys) = {p.mount.destination}
                    /\ Given(parts, SourceKeys) = {p.mount.source}
  <1> DEFINE stops == {k \in DOMAIN parts : PartVerdict(parts, k) # "continue"}
             n == Len(parts) + 1
             Sets(keys) == Setting(parts, keys, n)
             At(keys) == parts[CHOOSE j \in Sets(keys) : TRUE].value
             first == CHOOSE k \in stops : \A j \in stops : k <= j
             p == parse_structured_mount_relabel(parts)
  <1>1. p = IF stops # {} THEN Refuses(PartVerdict(parts, first))
            ELSE IF Sets({"relabel"}) = {} THEN Irrelevant
            ELSE IF Sets(SourceKeys) = {} \/ Sets(DestinationKeys) = {} THEN Refuses("Malformed")
            ELSE Observes(At(SourceKeys), At(DestinationKeys), At({"relabel"}))
    BY Zenon DEF parse_structured_mount_relabel
  <1>2. stops # {} => PartVerdict(parts, first) \in {"Malformed", "Unavailable"}
    BY FirstVerdict
  <1>3. stops = {} =>
          \A keys \in {SourceKeys, DestinationKeys, {"relabel"}} :
              /\ Sets(keys) = {} => Given(parts, keys) = {}
              /\ Sets(keys) # {} => Given(parts, keys) = {At(keys)}
    BY SetOnce
  <1> HIDE DEF stops, n, Sets, At, first, p
  <1>4. CASE stops # {}
    <2>1. p.parsed \in {"Malformed", "Unavailable"}
      BY <1>1, <1>2, <1>4, Parses
    <2> QED
      BY <2>1 DEF p
  <1>5. CASE stops = {} /\ Sets({"relabel"}) = {}
    <2>1. p = Irrelevant
      BY <1>1, <1>5
    <2>2. Given(parts, {"relabel"}) = {}
      BY <1>3, <1>5
    <2> QED
      BY <2>1, <2>2, Parses DEF p
  <1>6. CASE stops = {} /\ Sets({"relabel"}) # {} /\ (Sets(SourceKeys) = {} \/ Sets(DestinationKeys) = {})
    <2>1. p = Refuses("Malformed")
      BY <1>1, <1>6
    <2> QED
      BY <2>1, Parses DEF p
  <1>7. CASE stops = {} /\ Sets({"relabel"}) # {} /\ ~(Sets(SourceKeys) = {} \/ Sets(DestinationKeys) = {})
    <2>1. p = Observes(At(SourceKeys), At(DestinationKeys), At({"relabel"}))
      BY <1>1, <1>7
    <2>2. /\ p.parsed = "Observed"
          /\ p.mount = [source |-> At(SourceKeys), destination |-> At(DestinationKeys), relabel |-> At({"relabel"})]
      BY <2>1, Parses
    <2>3. /\ Given(parts, {"relabel"}) = {At({"relabel"})}
          /\ Given(parts, DestinationKeys) = {At(DestinationKeys)}
          /\ Given(parts, SourceKeys) = {At(SourceKeys)}
      BY <1>3, <1>7
    <2> QED
      BY <2>2, <2>3 DEF p
  <1> QED
    BY <1>4, <1>5, <1>6, <1>7

\* What an option's parsed relabel says of the mount Podman makes of it.  Only
\* the source of a value after -v may be another: the text Podman drops an
\* equals sign from.
Aliased(arguments, k) ==
    /\ arguments[k].form = "short+" /\ arguments[k].meant # arguments[k].value
    /\ RelabelOf(arguments, k).mount.source = arguments[k].value.colons[1]
LEMMA MountMeant ==
    ASSUME NEW arguments, AllText(arguments), NEW k \in PodmanMounts(arguments),
           Option(arguments, k).end = "no"
    PROVE  LET parsed == RelabelOf(arguments, k)
               meant == PodmanMount(arguments, k)
           IN  /\ parsed.parsed \in ParsedStates
               /\ parsed.parsed = "Irrelevant" => meant.labels = {}
               /\ parsed.parsed = "Observed" =>
                    /\ meant.labels = {parsed.mount.relabel}
                    /\ meant.destinations = {parsed.mount.destination}
                    /\ meant.sources = {parsed.mount.source} \/ Aliased(arguments, k)
  <1> DEFINE a == arguments[k]
             kind == MountOption(a)
             v == ValueOfOption(arguments, k)
             m == IF Inline(a) THEN a.meant ELSE arguments[k + 1].word
             parsed == RelabelOf(arguments, k)
             meant == PodmanMount(arguments, k)
  <1>1. Sequence(arguments) /\ Len(arguments) \in Nat
    BY SequenceFacts DEF AllText
  <1>2. /\ k \in 1..Len(arguments) /\ IsOption(a) /\ kind # "none" /\ (Inline(a) \/ k < Len(arguments))
    <2>1. k \in PodmanStops(arguments) /\ k <= Len(arguments) /\ IsOption(a) /\ kind # "none"
          /\ (Inline(a) \/ k < Len(arguments))
      BY DEF PodmanMounts, PodmanOptions
    <2>2. k \in Nat /\ k # 0
      BY <2>1, <1>1, StopsFacts
    <2> QED
      BY <1>1, <2>1, <2>2
  <1>3. parsed = parse_create_mount_relabel(kind, v)
    BY <1>1, <1>2, OptionFacts
  <1>4. /\ IsValue(v) /\ IsValue(m) /\ DOMAIN m.colons = DOMAIN v.colons
        /\ \A j \in DOMAIN v.colons \ {1} : m.colons[j] = v.colons[j]
        /\ a.form # "short+" \/ ~Inline(a) => m = v
        /\ Inline(a) => m = a.meant /\ v = a.value
    <2>1. CASE Inline(a)
      <3>1. a.form # "other" /\ IsArgument(a) /\ m = a.meant /\ v = a.value
        BY <2>1, <1>2 DEF AllText, ValueOfOption
      <3> QED
        BY <2>1, <3>1 DEF IsArgument
    <2>2. CASE ~Inline(a)
      <3>1. k + 1 \in 1..Len(arguments)
        BY <2>2, <1>1, <1>2
      <3>2. /\ arguments[k + 1].form # "other" /\ IsArgument(arguments[k + 1])
            /\ m = arguments[k + 1].word /\ v = arguments[k + 1].word
        BY <2>2, <3>1 DEF AllText, ValueOfOption
      <3> QED
        BY <2>2, <3>2 DEF IsArgument
    <2> QED
      BY <2>1, <2>2
  <1>5. meant = IF kind = "mount"
                THEN [sources |-> Given(m.parts, SourceKeys),
                      destinations |-> Given(m.parts, DestinationKeys),
                      labels |-> Given(m.parts, {"relabel"})]
                ELSE [sources |-> {m.colons[1]},
                      destinations |-> DestinationsOfColons(m.colons),
                      labels |-> LabelsOfColons(m.colons)]
    BY Zenon DEF PodmanMount, DestinationsOfColons, LabelsOfColons
  <1>6. kind \in {"volume", "mount"} /\ (kind = "mount" => a.form # "short+")
    BY <1>2 DEF MountOption
  <1>7. parsed.parsed \in ParsedStates
    BY <1>3, <1>4, ParsedValue
  <1> HIDE DEF v, m, parsed, meant, kind
  <1>8. CASE kind = "mount"
    <2>1. m = v /\ Sequence(v.parts)
      BY <1>4, <1>6, <1>8 DEF IsValue
    <2>2. parsed = parse_structured_mount_relabel(v.parts)
      BY <1>3, <1>8 DEF parse_create_mount_relabel
    <2>3. /\ parsed.parsed = "Irrelevant" => Given(v.parts, {"relabel"}) = {}
          /\ parsed.parsed = "Observed" =>
               /\ Given(v.parts, {"relabel"}) = {parsed.mount.relabel}
               /\ Given(v.parts, DestinationKeys) = {parsed.mount.destination}
               /\ Given(v.parts, SourceKeys) = {parsed.mount.source}
      BY <2>1, <2>2, StructuredMeant
    <2>4. /\ meant.labels = Given(v.parts, {"relabel"}) /\ meant.destinations = Given(v.parts, DestinationKeys)
          /\ meant.sources = Given(v.parts, SourceKeys)
      BY <1>5, <1>8, <2>1
    <2> QED
      BY <1>7, <2>3, <2>4 DEF parsed, meant
  <1>9. CASE kind = "volume"
    <2>1. parsed = parse_volume_mount(v.colons)
      BY <1>3, <1>9 DEF parse_create_mount_relabel
    <2>2. /\ parsed.parsed = "Irrelevant" => LabelsOfColons(m.colons) = {}
          /\ parsed.parsed = "Observed" =>
               /\ LabelsOfColons(m.colons) = {parsed.mount.relabel}
               /\ DestinationsOfColons(m.colons) = {parsed.mount.destination}
               /\ parsed.mount.source = v.colons[1]
      BY <1>4, <2>1, VolumeMeant
    <2>3. /\ meant.labels = LabelsOfColons(m.colons) /\ meant.destinations = DestinationsOfColons(m.colons)
          /\ meant.sources = {m.colons[1]}
      BY <1>5, <1>9
    <2>4. ASSUME parsed.parsed = "Observed"
          PROVE  meant.sources = {parsed.mount.source} \/ Aliased(arguments, k)
      <3>1. CASE m = v
        BY <3>1, <2>2, <2>3, <2>4
      <3>2. CASE m # v
        <4>1. a.form = "short+" /\ Inline(a) /\ a.meant # a.value /\ v = a.value
          BY <3>2, <1>4
        <4> QED
          BY <4>1, <2>2, <2>4 DEF Aliased, parsed
      <3> QED
        BY <3>1, <3>2
    <2> QED
      BY <1>7, <2>2, <2>3, <2>4 DEF parsed, meant
  <1> QED
    BY <1>6, <1>8, <1>9


\* A mount option with a value does not end the parse.
LEMMA MountEnds ==
    ASSUME NEW arguments, AllText(arguments), NEW k \in PodmanMounts(arguments)
    PROVE  Option(arguments, k).end = "no"
  <1> DEFINE a == arguments[k]
             Takes(n, relabel) == [end |-> "no", takes |-> n, relabel |-> relabel]
  <1>1. MountOption(a) # "none" /\ (Inline(a) \/ k < Len(arguments))
    BY DEF PodmanMounts
  <1>2. k \in Nat /\ Len(arguments) \in Nat
    BY SequenceFacts, StopsFacts DEF AllText, PodmanMounts, PodmanOptions
  <1>3. ~(~Inline(a) /\ k = Len(arguments))
    BY <1>1, <1>2
  <1>4. \E n, relabel : Option(arguments, k) = Takes(n, relabel)
    BY <1>1, <1>3, Zenon DEF Option, Inline
  <1> QED
    BY <1>4

\* The mounts Podman is asked to relabel are those whose relabel was observed.
LEMMA AskedObserved ==
    ASSUME NEW arguments, NEW r, NEW operand, ReadTo(arguments, r, operand), r.state = "Observed"
    PROVE  /\ AskedFor(arguments) = OfState(arguments, PodmanMounts(arguments), "Observed")
           /\ TellsMounts(arguments, AskedFor(arguments), r)
           /\ IsFiniteSet(AskedFor(arguments)) /\ AskedFor(arguments) \subseteq Nat
  <1> DEFINE mounts == PodmanMounts(arguments)
             Of(state) == OfState(arguments, mounts, state)
  <1>1. AllText(arguments) /\ RelabelsOf(arguments, mounts, r)
    BY DEF ReadTo
  <1>2. Of("Malformed") = {} /\ Of("Unavailable") = {} /\ TellsMounts(arguments, Of("Observed"), r)
    BY <1>1 DEF RelabelsOf
  <1>3. \A k \in mounts :
          /\ RelabelOf(arguments, k).parsed \in ParsedStates
          /\ RelabelOf(arguments, k).parsed = "Irrelevant" => PodmanMount(arguments, k).labels = {}
          /\ RelabelOf(arguments, k).parsed = "Observed" =>
               PodmanMount(arguments, k).labels = {RelabelOf(arguments, k).mount.relabel}
    BY <1>1, MountEnds, MountMeant
  <1>4. \A k \in mounts : RelabelOf(arguments, k).parsed \notin {"Malformed", "Unavailable"}
    BY <1>2 DEF OfState
  <1>5. \A k \in mounts : PodmanMount(arguments, k).labels # {} <=> RelabelOf(arguments, k).parsed = "Observed"
    BY <1>3, <1>4 DEF ParsedStates
  <1>6. AskedFor(arguments) = Of("Observed")
    BY <1>5 DEF AskedFor, OfState
  <1>7. IsFiniteSet(mounts) /\ mounts \subseteq Nat
    <2>1. Len(arguments) \in Nat
      BY <1>1, SequenceFacts DEF AllText
    <2>2. mounts \subseteq 1..(Len(arguments) + 2)
      BY <1>1, StopsFacts DEF AllText, PodmanMounts, PodmanOptions
    <2>3. IsFiniteSet(1..(Len(arguments) + 2)) /\ 1..(Len(arguments) + 2) \subseteq Nat
      BY <2>1, FS_Interval
    <2> QED
      BY <2>2, <2>3, FS_Subset
  <1>8. Of("Observed") \subseteq mounts
    BY DEF OfState
  <1>9. IsFiniteSet(Of("Observed")) /\ Of("Observed") \subseteq Nat
    BY <1>7, <1>8, FS_Subset
  <1> HIDE DEF Of
  <1>10. TellsMounts(arguments, AskedFor(arguments), r) /\ IsFiniteSet(AskedFor(arguments)) /\ AskedFor(arguments) \subseteq Nat
    BY <1>2, <1>6, <1>9
  <1> QED
    BY <1>6, <1>10 DEF Of

-----------------------------------------------------------------------------
(* The relabel hints *)

\* Native mount k is the one a parsed mount names, with a relabel claimed.
Points(response, k, mount) ==
    LET items == response.mounts.items
    IN  /\ response.mounts.json = "array" /\ k \in 1..Len(items)
        /\ SourceOf(items[k]) = mount.source /\ items[k].destination.text = mount.destination
        /\ items[k].json = "object" /\ Text(mount.source) \in {items[k].name, items[k].source}
        /\ ClaimsIn(response, items[k]) # {}
TellsMount(response, told, mount) ==
    /\ Points(response, told.mount, mount)
    /\ told.hint = IF ClaimsIn(response, response.mounts.items[told.mount]) = {mount.relabel} THEN mount.relabel
                   ELSE "contradictory"
HintsTell(response, mounts, hints, n) ==
    Len(hints) = n /\ \A i \in 1..n : TellsMount(response, hints[i], mounts[i])

\* The command of a response is read, with these relabels.
ReadsCommand(response, r) ==
    /\ response.command.json = "array" /\ r.state = "Observed"
    /\ \E operand : ReadTo(response.command.items, r, operand)
HintsOf(response, hints) ==
    \E r : ReadsCommand(response, r) /\ HintsTell(response, r.mounts, hints, Len(r.mounts))

\* The mount that a parsed mount points at is the one Podman was asked for.
MeansMount(response, p, k, mount) ==
    LET meant == PodmanMount(response.command.items, p)
        item == response.mounts.items[k]
    IN  /\ meant.labels = {mount.relabel} /\ meant.sources = {SourceOf(item)}
        /\ meant.destinations = {item.destination.text}
LEMMA PointsAtMeant ==
    ASSUME NEW response \in Containers, NEW r, ReadsCommand(response, r),
           NEW p \in AskedFor(response.command.items), NEW mount,
           mount = RelabelOf(response.command.items, p).mount, NEW k, Points(response, k, mount)
    PROVE  MeansMount(response, p, k, mount)
  <1> DEFINE arguments == response.command.items
             meant == PodmanMount(arguments, p)
             a == arguments[p]
             item == response.mounts.items[k]
  <1>1. PICK operand : ReadTo(arguments, r, operand)
    BY DEF ReadsCommand
  <1>2. response.command.json = "array" /\ r.state = "Observed" /\ AllText(arguments)
    BY <1>1 DEF ReadsCommand, ReadTo
  <1>3. p \in PodmanMounts(arguments) /\ RelabelOf(arguments, p).parsed = "Observed"
    BY <1>1, <1>2, AskedObserved DEF OfState
  <1>4. /\ meant.labels = {mount.relabel} /\ meant.destinations = {mount.destination}
        /\ meant.sources = {mount.source} \/ Aliased(arguments, p)
    BY <1>2, <1>3, MountEnds, MountMeant
  <1>5. /\ SourceOf(item) = mount.source /\ item.destination.text = mount.destination
        /\ item.json = "object" /\ Text(mount.source) \in {item.name, item.source}
        /\ response.mounts.json = "array" /\ k \in 1..Len(response.mounts.items)
    BY DEF Points
  <1>6. ~Aliased(arguments, p)
    <2>1. p \in 1..Len(arguments) /\ Sequence(arguments)
      <3>1. p \in PodmanStops(arguments) /\ p <= Len(arguments) /\ Sequence(arguments)
        BY <1>2, <1>3 DEF PodmanMounts, PodmanOptions, AllText
      <3>2. Len(arguments) \in Nat /\ p \in Nat /\ p # 0
        BY <3>1, SequenceFacts, StopsFacts
      <3> QED
        BY <3>1, <3>2
    <2>2. a \in ItemsOf(response.command)
      BY <1>2, <2>1, SequenceFacts DEF ItemsOf
    <2>3. Sequence(response.mounts.items)
      BY <1>5, ContainersAssumption, Lists
    <2>4. item \in ItemsOf(response.mounts)
      BY <1>5, <2>3, SequenceFacts DEF ItemsOf
    <2>5. Apart(a, item)
      BY <2>2, <2>4, ContainersAssumption
    <2> QED
      BY <1>5, <2>5 DEF Apart, Aliased
  <1> QED
    BY <1>4, <1>5, <1>6 DEF MeansMount

\* Hints that tell the parsed mounts tell the command.
TellsAsked(response, asked, hints, p) ==
    LET meant == PodmanMount(response.command.items, p)
        told == hints[Rank(asked, p)]
        mount == response.mounts.items[told.mount]
        claims == ClaimsIn(response, mount)
    IN  /\ meant.sources = {SourceOf(mount)} /\ meant.destinations = {mount.destination.text}
        /\ claims # {}
        /\ claims = meant.labels => meant.labels = {told.hint}
        /\ claims # meant.labels => told.hint = "contradictory"
LEMMA HintsOfCommand ==
    ASSUME NEW response \in Containers, NEW hints, HintsOf(response, hints)
    PROVE  /\ Len(hints) = Cardinality(AskedFor(response.command.items))
           /\ \A p \in AskedFor(response.command.items) :
                TellsAsked(response, AskedFor(response.command.items), hints, p)
  <1> DEFINE arguments == response.command.items
             asked == AskedFor(arguments)
  <1>1. PICK r : ReadsCommand(response, r) /\ HintsTell(response, r.mounts, hints, Len(r.mounts))
    BY DEF HintsOf
  <1>2. PICK operand : r.state = "Observed" /\ ReadTo(arguments, r, operand)
    BY <1>1 DEF ReadsCommand
  <1>3. TellsMounts(arguments, asked, r) /\ IsFiniteSet(asked) /\ asked \subseteq Nat
    BY <1>2, AskedObserved
  <1>4. /\ Len(r.mounts) = Cardinality(asked)
        /\ \A p \in asked : r.mounts[Rank(asked, p)] = RelabelOf(arguments, p).mount
    BY <1>3 DEF TellsMounts
  <1>5. /\ Len(hints) = Len(r.mounts)
        /\ \A i \in 1..Len(r.mounts) : TellsMount(response, hints[i], r.mounts[i])
    BY <1>1 DEF HintsTell
  <1>6. \A p \in asked : Rank(asked, p) \in 1..Len(r.mounts)
    BY <1>3, <1>4, RankFacts
  <1>7. ASSUME NEW p \in asked
        PROVE  TellsAsked(response, asked, hints, p)
    <2> DEFINE meant == PodmanMount(arguments, p)
               told == hints[Rank(asked, p)]
               item == response.mounts.items[told.mount]
               claims == ClaimsIn(response, item)
               mount == RelabelOf(arguments, p).mount
    <2>1. TellsMount(response, told, mount)
      BY <1>4, <1>5, <1>6
    <2>2. /\ Points(response, told.mount, mount)
          /\ told.hint = IF claims = {mount.relabel} THEN mount.relabel ELSE "contradictory"
      BY <2>1 DEF TellsMount
    <2>3. claims # {}
      BY <2>2 DEF Points
    <2>4. /\ meant.labels = {mount.relabel}
          /\ meant.sources = {SourceOf(item)} /\ meant.destinations = {item.destination.text}
      <3> DEFINE k == told.mount
      <3>1. Points(response, k, mount) /\ mount = RelabelOf(arguments, p).mount /\ p \in AskedFor(arguments)
        BY <2>2
      <3>2. ReadsCommand(response, r)
        BY <1>1
      <3> HIDE DEF mount, k
      <3>3. MeansMount(response, p, k, mount)
        BY <3>1, <3>2, PointsAtMeant
      <3> QED
        BY <3>3 DEF MeansMount, k
    <2> HIDE DEF meant, told, item, claims, mount
    <2>5. claims = meant.labels => meant.labels = {told.hint}
      BY <2>2, <2>4
    <2>6. claims # meant.labels => told.hint = "contradictory"
      BY <2>2, <2>4
    <2> QED
      BY <2>3, <2>4, <2>5, <2>6 DEF TellsAsked, meant, told, item, claims
  <1> QED
    BY <1>4, <1>5, <1>7

\* The hints so far, and the ones observed.
HintInv ==
    /\ stage = "correlate" /\ relabels.state = "Observed" =>
         HintsTell(native, relabels.mounts, decoded, index - 1) /\ index <= Len(relabels.mounts) + 1
    /\ stage \in ToMounts \cup EvidenceStages => ~IsObserved(fields["relabel_hints"])
    /\ IsObserved(fields["relabel_hints"]) => HintsOf(native, fields["relabel_hints"].value)

\* One turn of correlate_authored_mount_relabels: its one match is the native
\* mount the parsed mount names.
LEMMA CorrelateTurn ==
    ASSUME TypeOK, MountsInv, IsObserved(fields["mounts"]), NEW mount,
           Cardinality(Matching(mount)) = 1,
           NEW k, k = CHOOSE j \in Matching(mount) : TRUE,
           NEW relabel, relabel = fields["mounts"].value[k].relabel, IsObserved(relabel)
    PROVE  /\ Points(native, k, mount)
           /\ ClaimsIn(native, native.mounts.items[k]) = {mount.relabel} <=> relabel = Observed(mount.relabel)
  <1> DEFINE mounts == fields["mounts"].value
             items == native.mounts.items
             claims == ClaimsIn(native, items[k])
  <1>1. Matching(mount) # {}
    BY FS_EmptySet
  <1>2. k \in Matching(mount)
    BY <1>1, Zenon
  <1>3. Matching(mount) = {j \in DOMAIN mounts : /\ mounts[j].source = mount.source
                                               /\ mounts[j].destination = Observed(mount.destination)}
    BY DEF Matching
  <1>4. k \in DOMAIN mounts /\ mounts[k].source = mount.source /\ mounts[k].destination = Observed(mount.destination)
    BY <1>2, <1>3
  <1>5. /\ native.mounts.json = "array" /\ Sequence(mounts) /\ Len(mounts) = Len(items)
        /\ \A j \in 1..Len(items) : Faithful(native, mounts[j], items[j])
    BY DEF MountsInv, FaithfulTo
  <1>6. k \in 1..Len(items)
    BY <1>4, <1>5, SequenceFacts
  <1>7. Faithful(native, mounts[k], items[k])
    BY <1>5, <1>6
  <1> HIDE DEF mounts, items
  <1>8. /\ mounts[k].source = SourceOf(items[k]) /\ items[k].json = "object"
        /\ Text(mounts[k].source) \in {items[k].name, items[k].source}
        /\ mounts[k].destination = optional_observed_string(items[k].destination)
    BY <1>7 DEF Faithful
  <1>9. claims # {} /\ relabel = Observed(relabel.value) /\ claims = {relabel.value}
    <2>1. relabel = mounts[k].relabel
      BY DEF mounts
    <2>2. IF claims = {} THEN relabel = Absent
          ELSE relabel = Observed(relabel.value) /\ claims = {relabel.value}
      BY <1>7, <2>1 DEF Faithful
    <2> HIDE DEF claims
    <2> QED
      BY <2>2, States
  <1>10. items[k].destination.text = mount.destination
    <2> DEFINE d == items[k].destination
    <2>1. optional_observed_string(d) = Observed(mount.destination)
      BY <1>4, <1>8
    <2> HIDE DEF d
    <2>2. optional_observed_string(d) = Observed(d.text)
      BY <2>1, States DEF optional_observed_string
    <2>3. Observed(d.text).value = d.text /\ Observed(mount.destination).value = mount.destination
      BY States
    <2>4. d.text = mount.destination
      BY <2>1, <2>2, <2>3
    <2> QED
      BY <2>4 DEF d
  <1>11. claims = {mount.relabel} <=> relabel = Observed(mount.relabel)
    <2> HIDE DEF claims
    <2> QED
      BY <1>9, States
  <1> QED
    BY <1>4, <1>5, <1>6, <1>8, <1>9, <1>10, <1>11 DEF Points, items


\* What the scan leaves for the correlation.
LEMMA ReadRelabels ==
    ASSUME ScanInv, stage = "correlate", relabels.state = "Observed"
    PROVE  Len(relabels.mounts) \in Nat /\ ReadsCommand(native, relabels)
  <1>1. ReadTo(Arguments, relabels, image) /\ native.command.json = "array"
    BY DEF ScanInv
  <1>2. TellsMounts(Arguments, AskedFor(Arguments), relabels)
    BY <1>1, AskedObserved
  <1>3. Len(relabels.mounts) \in Nat
    BY <1>2, SequenceFacts DEF TellsMounts
  <1>4. ReadsCommand(native, relabels)
    BY <1>1 DEF ReadsCommand, Arguments
  <1> QED
    BY <1>3, <1>4

LEMMA HintInit == Init => HintInv
  <1> SUFFICES ASSUME Init
               PROVE  HintInv
    OBVIOUS
  <1>1. stage = "configuration" /\ fields["relabel_hints"] = Absent
    BY DEF Init, Fields
  <1> QED
    BY <1>1, States DEF HintInv

\* The evidence: its hints, and those it concludes with.
LEMMA HintEvidence ==
    ASSUME ShapeInv, stage = "correlate", NEW hints, NEW told, Evidence(hints, told),
           IsObserved(hints) => HintsOf(native, hints.value)
    PROVE  HintInv'
  <1> DEFINE evidence == Observed([image |-> fields["image_hint"], relabels |-> hints])
             g == With(fields, "relabel_hints", hints)
  <1>1. /\ fields' = With(g, "creation", evidence)
        /\ stage' = "dependency_list" /\ native' = native
    BY DEF Evidence, With, Begin
  <1>2. {"creation", "relabel_hints"} \subseteq Fields /\ Record(fields)
    BY DEF Fields, ShapeInv, TypeOK
  <1> HIDE DEF evidence
  <1>3. Record(g) /\ g["relabel_hints"] = hints
    BY <1>2, FieldSet
  <1> HIDE DEF g
  <1>4. fields'["relabel_hints"] = hints
    BY <1>1, <1>2, <1>3, FieldSet
  <1>5. stage' \notin ToMounts \cup EvidenceStages /\ stage' # "correlate"
    BY <1>1, StageSets DEF EvidenceStages
  <1> QED
    BY <1>1, <1>4, <1>5 DEF HintInv

LEMMA HintCorrelate ==
    ASSUME ShapeInv, ScanInv, MountsInv, HintInv, CorrelateMount
    PROVE  HintInv'
  <1> DEFINE mount == relabels.mounts[index]
             k == CHOOSE j \in Matching(mount) : TRUE
             relabel == fields["mounts"].value[k].relabel
             agrees == relabel = Observed(mount.relabel)
             told == [hint |-> IF agrees THEN mount.relabel ELSE "contradictory", mount |-> k]
             n == index - 1
  <1>1. /\ stage = "correlate" /\ relabels.state = "Observed"
        /\ index <= Len(relabels.mounts) /\ IsObserved(fields["mounts"])
    BY DEF CorrelateMount
  <1>2. CASE Evidence(Unavailable, NoFindings)
    BY <1>1, <1>2, HintEvidence, States
  <1>3. CASE ~Evidence(Unavailable, NoFindings)
    <2>1. /\ Cardinality(Matching(mount)) = 1 /\ IsObserved(relabel)
          /\ decoded' = Append(decoded, told) /\ index' = index + 1
          /\ native' = native /\ stage' = stage /\ fields' = fields /\ relabels' = relabels
      BY <1>3 DEF CorrelateMount
    <2>2. TypeOK /\ Sequence(decoded) /\ index \in Nat \ {0}
      BY DEF ShapeInv, TypeOK
    <2>3. HintsTell(native, relabels.mounts, decoded, n) /\ ~IsObserved(fields["relabel_hints"])
      BY <1>1 DEF HintInv, EvidenceStages
    <2>4. Points(native, k, mount) /\ (ClaimsIn(native, native.mounts.items[k]) = {mount.relabel} <=> agrees)
      <3> HIDE DEF mount, k, relabel
      <3>1. k = (CHOOSE j \in Matching(mount) : TRUE) /\ relabel = fields["mounts"].value[k].relabel
        BY DEF k, relabel
      <3> QED
        BY <1>1, <2>1, <2>2, <3>1, CorrelateTurn
    <2>5. TellsMount(native, told, mount)
      <3> HIDE DEF mount, k, agrees
      <3>1. told.mount = k /\ told.hint = IF agrees THEN mount.relabel ELSE "contradictory"
        OBVIOUS
      <3> HIDE DEF told
      <3> QED
        BY <2>4, <3>1 DEF TellsMount
    <2>6. Len(decoded) = n /\ \A i \in 1..n : TellsMount(native, decoded[i], relabels.mounts[i])
      BY <2>3 DEF HintsTell
    <2> HIDE DEF told, mount
    <2>7. /\ Len(decoded') = n + 1 /\ decoded'[n + 1] = told
          /\ \A j \in 1..n : decoded'[j] = decoded[j]
      <3> HIDE DEF n
      <3> QED
        BY <2>1, <2>2, <2>6, Appending
    <2>8. n + 1 = index /\ n \in Nat /\ index' - 1 = index /\ \A i \in 1..index : i \in 1..n \/ i = index
      BY <2>1, <2>2
    <2> HIDE DEF n
    <2>9. TellsMount(native, decoded'[index], relabels.mounts[index])
      BY <2>5, <2>7, <2>8 DEF mount
    <2>10. HintsTell(native, relabels.mounts, decoded', index' - 1)
      <3>1. \A i \in 1..index : TellsMount(native, decoded'[i], relabels.mounts[i])
        BY <2>6, <2>7, <2>8, <2>9
      <3>2. Len(decoded') = index
        BY <2>7, <2>8
      <3> QED
        BY <2>8, <3>1, <3>2 DEF HintsTell
    <2>11. index' <= Len(relabels.mounts) + 1
      <3>1. Len(relabels.mounts) \in Nat
        BY <1>1, ReadRelabels
      <3> QED
        BY <1>1, <2>1, <2>2, <3>1
    <2> QED
      BY <2>1, <2>3, <2>10, <2>11 DEF HintInv
  <1> QED
    BY <1>2, <1>3

LEMMA HintEnd ==
    ASSUME ShapeInv, ScanInv, HintInv, EndCorrelation
    PROVE  HintInv'
  <1>1. stage = "correlate"
    BY DEF EndCorrelation
  <1>2. CASE \E told : Evidence(Malformed, told)
    BY <1>1, <1>2, HintEvidence, States
  <1>3. CASE \E told : Evidence(Unavailable, told)
    BY <1>1, <1>3, HintEvidence, States
  <1>4. CASE /\ relabels.state = "Observed" /\ index > Len(relabels.mounts)
             /\ Evidence(Observed(decoded), NoFindings)
    <2>1. /\ HintsTell(native, relabels.mounts, decoded, index - 1) /\ index <= Len(relabels.mounts) + 1
      BY <1>1, <1>4 DEF HintInv
    <2>2. Len(relabels.mounts) \in Nat /\ index \in Nat
      BY <1>1, <1>4, ReadRelabels DEF ShapeInv, TypeOK
    <2>3. index - 1 = Len(relabels.mounts)
      BY <1>4, <2>1, <2>2
    <2>4. ReadsCommand(native, relabels)
      BY <1>1, <1>4, ReadRelabels
    <2>5. HintsOf(native, decoded)
      BY <2>1, <2>3, <2>4 DEF HintsOf
    <2>6. Observed(decoded).value = decoded
      BY States
    <2> DEFINE hints == Observed(decoded)
    <2>7. HintsOf(native, hints.value) /\ Evidence(hints, NoFindings)
      BY <1>4, <2>5, <2>6
    <2> HIDE DEF hints
    <2> QED
      BY <1>1, <2>7, HintEvidence
  <1> QED
    BY <1>2, <1>3, <1>4 DEF EndCorrelation


LEMMA HintStep == ShapeInv /\ ScanInv /\ MountsInv /\ HintInv /\ [Next]_vars => HintInv'
  <1>0. HintInv /\ UNCHANGED vars => HintInv'
    <2> SUFFICES ASSUME HintInv, UNCHANGED vars
                 PROVE  HintInv'
      OBVIOUS
    <2>1. /\ native' = native /\ stage' = stage /\ index' = index /\ relabels' = relabels
          /\ fields' = fields /\ decoded' = decoded
      BY DEF vars
    <2> QED
      BY <2>1 DEF HintInv
  <1> SUFFICES ASSUME ShapeInv, ScanInv, MountsInv, HintInv, Next
               PROVE  HintInv'
    BY <1>0
  <1>1. Frame /\ Flow /\ stage \in Stages
    BY FrameStep DEF ShapeInv, TypeOK
  <1>2. native' = native
    BY <1>1 DEF Frame
  <1>3. CASE stage = "correlate"
    <2>1. EvidenceNext
      BY <1>3, StageActions
    <2>2. CorrelateMount \/ EndCorrelation
      BY <1>3, <2>1 DEF EvidenceNext, ParseCommand, ScanOption, EndOptions, DecodeImageHint
    <2> QED
      BY <2>2, HintCorrelate, HintEnd
  <1>4. CASE stage = "image_hint"
    <2>1. EvidenceNext
      BY <1>4, StageActions
    <2>2. DecodeImageHint
      BY <1>4, <2>1 DEF EvidenceNext, ParseCommand, ScanOption, EndOptions, CorrelateMount, EndCorrelation
    <2>3. stage' = "correlate" /\ index' = 1 /\ decoded' = <<>> /\ relabels' = relabels
      BY <2>2 DEF DecodeImageHint, Begin
    <2>4. fields'["relabel_hints"] = fields["relabel_hints"]
      BY <1>1, <1>4 DEF Frame
    <2>5. ~IsObserved(fields["relabel_hints"])
      BY <1>4 DEF HintInv, EvidenceStages
    <2>6. HintsTell(native, relabels.mounts, decoded', index' - 1)
      BY <2>3 DEF HintsTell
    <2>7. relabels.state = "Observed" => index' <= Len(relabels.mounts) + 1
      <3>1. ReadTo(Arguments, relabels, image)
        BY <1>4 DEF ScanInv
      <3>2. relabels.state = "Observed" => Len(relabels.mounts) \in Nat
        BY <3>1, AskedObserved, SequenceFacts DEF TellsMounts
      <3> QED
        BY <2>3, <3>2
    <2> QED
      BY <1>2, <2>3, <2>4, <2>5, <2>6, <2>7 DEF HintInv
  <1>5. CASE stage \notin {"image_hint", "correlate"}
    <2>1. fields'["relabel_hints"] = fields["relabel_hints"]
      BY <1>1, <1>5 DEF Frame
    <2>2. stage' # "correlate"
      <3>1. CASE stage \in {"command", "scan"}
        <4>1. EvidenceNext
          BY <3>1, StageActions
        <4>2. ParseCommand \/ ScanOption \/ EndOptions
          BY <3>1, <4>1 DEF EvidenceNext, DecodeImageHint, CorrelateMount, EndCorrelation
        <4> QED
          BY <3>1, <4>2 DEF ParseCommand, ScanOption, EndOptions, Conclude, Begin
      <3>2. CASE stage \notin {"command", "scan"}
        BY <1>1, <1>5, <3>2, StageSets DEF Flow
      <3> QED
        BY <3>1, <3>2
    <2>3. stage' \in ToMounts \cup EvidenceStages => stage \in ToMounts \cup EvidenceStages
      BY <1>1, StageSets DEF Flow, EvidenceStages
    <2> QED
      BY <1>2, <2>1, <2>2, <2>3 DEF HintInv
  <1> QED
    BY <1>3, <1>4, <1>5

\* The relabel hints that decode_container gives are the mounts the command
\* relabels, each at the native mount it names, and contradictory exactly where
\* the record claims another relabel.
THEOREM HintsAreTheCommands == Spec => []HintsTellTheCommand
  <1> DEFINE Inv == ShapeInv /\ BoundInv /\ BindsInv /\ MountsInv /\ ScanInv /\ HintInv
  <1>1. Init => Inv
    BY ShapeInit, BoundInit, BindsInit, MountsInit, ScanInit, HintInit
  <1>2. Inv /\ [Next]_vars => Inv'
    BY ShapeStep, BoundStep, BindsStep, MountsStep, ScanStep, HintStep
  <1>3. Inv => HintsTellTheCommand
    <2> SUFFICES ASSUME ShapeInv, HintInv, IsObserved(fields["relabel_hints"])
                 PROVE  HintsTellTheCommand
      BY DEF HintsTellTheCommand
    <2> DEFINE hints == fields["relabel_hints"].value
               asked == AskedFor(Arguments)
    <2>1. HintsOf(native, hints) /\ native \in Containers
      BY DEF HintInv, ShapeInv, TypeOK
    <2>2. Arguments = native.command.items
      BY DEF Arguments
    <2>3. Len(hints) = Cardinality(asked) /\ \A p \in asked : TellsAsked(native, asked, hints, p)
      <3> HIDE DEF hints
      <3> QED
        BY <2>1, <2>2, HintsOfCommand
    <2>4. \A mount : Claims(mount) = ClaimsIn(native, mount)
      BY DEF Claims, ClaimsIn
    <2> HIDE DEF hints, asked
    <2>5. ASSUME NEW p \in asked
          PROVE  LET meant == PodmanMount(Arguments, p)
                     told == hints[Rank(asked, p)]
                     mount == native.mounts.items[told.mount]
                 IN  /\ meant.sources = {SourceOf(mount)}
                     /\ meant.destinations = {mount.destination.text}
                     /\ Claims(mount) # {}
                     /\ IF Claims(mount) = meant.labels THEN meant.labels = {told.hint}
                        ELSE told.hint = "contradictory"
      <3>1. TellsAsked(native, asked, hints, p)
        BY <2>3
      <3> QED
        BY <2>2, <2>4, <3>1 DEF TellsAsked
    <2> QED
      BY <2>3, <2>5 DEF HintsTellTheCommand, hints, asked
  <1> HIDE DEF Inv
  <1> QED
    BY <1>1, <1>2, <1>3, PTL DEF Spec

-----------------------------------------------------------------------------
(* The conflicts *)

\* Findings that tell of no conflict.
Plain(fs) == Sequence(fs) /\ \A f \in Range(fs) : f.code # "CreationEvidenceConflict"

LEMMA PlainLists ==
    ASSUME NEW path, NEW k
    PROVE  /\ Plain(NoFindings) /\ Plain(Bad(path, k))
           /\ \A field : Plain(Reported(field, path, k))
           /\ \A code : code # "CreationEvidenceConflict" => Plain(<<Finding(code, path, k)>>)
  <1>1. Plain(NoFindings)
    BY ShortSequences DEF Plain, NoFindings, Range
  <1>2. ASSUME NEW code, code # "CreationEvidenceConflict"
        PROVE  Plain(<<Finding(code, path, k)>>)
    <2> DEFINE f == Finding(code, path, k)
    <2>1. f.code = code
      BY DEF Finding
    <2> HIDE DEF f
    <2>2. Sequence(<<f>>) /\ Range(<<f>>) = {f}
      BY ShortSequences DEF Range
    <2> QED
      BY <1>2, <2>1, <2>2 DEF Plain, f
  <1>3. Plain(Bad(path, k))
    BY <1>2 DEF Bad
  <1> QED
    BY <1>1, <1>2, <1>3 DEF Reported

LEMMA PlainMembers ==
    ASSUME NEW path, NEW values, NEW names, IsFiniteSet(names), NEW k
    PROVE  Plain(Members(path, values, names, k))
  <1> DEFINE n == Cardinality({m \in names : values[m] = "bad"})
             f == Finding("ResourceMalformed", path, k)
             fs == Members(path, values, names, k)
  <1>1. f.code = "ResourceMalformed"
    BY DEF Finding
  <1>2. fs = [j \in 1..n |-> f]
    BY DEF Members
  <1> HIDE DEF n, f, fs
  <1>3. \A g \in Range(fs) : g = f
    BY <1>2 DEF Range
  <1>4. Sequence(fs)
    BY MemberFindings DEF fs
  <1> QED
    BY <1>1, <1>3, <1>4 DEF Plain, fs

LEMMA PlainConcat ==
    ASSUME NEW s, Plain(s), NEW t, Plain(t)
    PROVE  Plain(s \o t)
  BY Concatenation DEF Plain

\* The turns of the loops tell of no conflict.
LEMMA PlainTurns ==
    ASSUME NEW k
    PROVE  /\ \A entry : Plain(EnvironmentEntry(entry, k).findings)
           /\ \A network : Plain(NetworkTurn(network, k).findings)
           /\ \A network : Plain(AttachmentTurn(network, k).findings)
           /\ \A bind : Plain(BindTurn(bind, k).findings)
  <1>1. /\ Plain(NoFindings) /\ \A path : Plain(Bad(path, k))
        /\ Plain(<<Finding("EnvironmentMalformed", "Env", k)>>)
    BY PlainLists
  <1>2. ASSUME NEW entry
        PROVE  Plain(EnvironmentEntry(entry, k).findings)
    <2> DEFINE one == <<Finding("EnvironmentMalformed", "Env", k)>>
    <2>1. EnvironmentEntry(entry, k) = Refused(one) \/ \E v : EnvironmentEntry(entry, k) = Pushes(v, NoFindings)
      BY Zenon DEF EnvironmentEntry
    <2> HIDE DEF one
    <2>2. EnvironmentEntry(entry, k).findings \in {one, NoFindings}
      BY <2>1, TurnFacts
    <2> QED
      BY <1>1, <2>2 DEF one
  <1>3. ASSUME NEW network
        PROVE  Plain(NetworkTurn(network, k).findings)
    <2>1. NetworkTurn(network, k).findings \in {Bad("Networks", k), NoFindings}
      BY TurnFacts DEF NetworkTurn
    <2> QED
      BY <1>1, <2>1
  <1>4. ASSUME NEW network
        PROVE  Plain(AttachmentTurn(network, k).findings)
    <2> DEFINE aliases == IF network.details = "null" THEN [field |-> Unavailable, findings |-> NoFindings]
                          ELSE decode_container_network_aliases(network.aliases, k)
               value == [name |-> network.name, aliases |-> aliases.field]
               bad == Bad("Aliases", k)
    <2>1. AttachmentTurn(network, k) = Pushes(value, aliases.findings)
      BY DEF AttachmentTurn
    <2>2. aliases.findings \in {bad, NoFindings}
      BY DEF decode_container_network_aliases
    <2> HIDE DEF aliases, value, bad
    <2>3. AttachmentTurn(network, k).findings = aliases.findings
      BY <2>1, TurnFacts
    <2> QED
      BY <1>1, <2>2, <2>3 DEF bad
  <1>5. ASSUME NEW bind
        PROVE  Plain(BindTurn(bind, k).findings)
    <2>1. BindTurn(bind, k) = Refused(Bad("Binds", k)) \/ \E v : BindTurn(bind, k) = Pushes(v, NoFindings)
      BY Zenon DEF BindTurn
    <2>2. BindTurn(bind, k).findings \in {Bad("Binds", k), NoFindings}
      BY <2>1, TurnFacts
    <2> QED
      BY <1>1, <2>2
  <1> QED
    BY <1>2, <1>3, <1>4, <1>5

LEMMA PlainMount ==
    ASSUME NEW mount, NEW k
    PROVE  Plain(MountTurn(mount, k).findings)
  <1> DEFINE r == MountTurn(mount, k)
             kind == mount.type.text
             destination == optional_observed_string(mount.destination)
             source == IF kind = "volume" THEN mount.name ELSE mount.source
             backing == IF kind = "volume" THEN optional_observed_string(mount.source) ELSE Absent
             relabel == decode_mount_selinux_relabel(mount, kind, source.text, destination)
             a == Reported(backing, "Mounts", k)
             b == Members("Mounts", mount.members, {"RW", "Options"}, k)
             c == IF relabel.reported THEN Bad("Mounts", k) ELSE NoFindings
             d == Members("Mounts", mount.members, {"Propagation", "SubPath"}, k)
             e == Reported(destination, "Mounts", k)
             one == Bad("Mounts", k)
             other == <<Finding("NativeFieldUnsupported", "Mounts", k)>>
             rest == a \o b \o c \o d
  <1>1. \/ \E fs \in {one, other, e \o one, e \o rest} : r = Refused(fs)
        \/ \E v : r = Pushes(v, NoFindings)
    BY Zenon DEF MountTurn
  <1>2. Plain(a) /\ Plain(c) /\ Plain(e) /\ Plain(one) /\ Plain(other) /\ Plain(NoFindings)
    BY PlainLists
  <1>3. IsFiniteSet({"RW", "Options"}) /\ IsFiniteSet({"Propagation", "SubPath"})
    BY SmallSets
  <1>4. Plain(b) /\ Plain(d)
    BY <1>3, PlainMembers
  <1> HIDE DEF a, b, c, d, e, one, other, r
  <1>5. Plain(rest)
    <2>1. Plain(a \o b)
      BY <1>2, <1>4, PlainConcat
    <2>2. Plain(a \o b \o c)
      BY <1>2, <2>1, PlainConcat
    <2> QED
      BY <1>4, <2>2, PlainConcat
  <1> HIDE DEF rest
  <1>6. Plain(e \o one) /\ Plain(e \o rest)
    BY <1>2, <1>5, PlainConcat
  <1> DEFINE two == e \o one
             all == e \o rest
  <1>7. (\E fs \in {one, other, two, all} : r = Refused(fs)) \/ \E v : r = Pushes(v, NoFindings)
    BY <1>1
  <1>8. Plain(two) /\ Plain(all)
    BY <1>6
  <1> HIDE DEF two, all
  <1>9. r.findings \in {one, other, two, all, NoFindings}
    BY <1>7, TurnFacts
  <1> QED
    BY <1>2, <1>8, <1>9 DEF r

LEMMA PlainSecret ==
    ASSUME NEW secret, NEW k
    PROVE  Plain(SecretTurn(secret, k).findings)
  <1> DEFINE r == SecretTurn(secret, k)
             id == decode_native_reference(secret.id)
             name == decode_native_reference(secret.name)
             references == {f.value : f \in {g \in {id, name} : IsObserved(g)}}
             unnamed == references = {} \/ Malformed \in {id, name}
             a == Reported(id, "Secrets", k)
             b == Reported(name, "Secrets", k)
             c == IF unnamed THEN Bad("Secrets", k) ELSE NoFindings
             d == Members("Secrets", secret.members, GrantMembers, k)
             one == Bad("Secrets", k)
             reported == a \o b \o c \o d
  <1>1. \/ \E fs \in {one, reported} : r = Refused(fs)
        \/ \E v : r = Pushes(v, NoFindings)
    BY Zenon DEF SecretTurn
  <1>2. Plain(a) /\ Plain(b) /\ Plain(c) /\ Plain(one) /\ Plain(NoFindings)
    BY PlainLists
  <1>3. Plain(d)
    BY SmallSets, PlainMembers DEF GrantMembers
  <1> HIDE DEF a, b, c, d, one, r
  <1>4. Plain(reported)
    <2>1. Plain(a \o b)
      BY <1>2, PlainConcat
    <2>2. Plain(a \o b \o c)
      BY <1>2, <2>1, PlainConcat
    <2> QED
      BY <1>3, <2>2, PlainConcat
  <1> HIDE DEF reported
  <1>5. r.findings \in {one, reported, NoFindings}
    BY <1>1, TurnFacts
  <1> QED
    BY <1>2, <1>4, <1>5 DEF r

LEMMA PlainNetworking == Plain(decode_container_networking.findings)
  <1> DEFINE members == native.host.members
             read == HostMembers \ Unmanaged(members)
             fs == IF native.host.json = "object" /\ \E m \in DOMAIN members : members[m] # "absent"
                   THEN <<Finding("NativeFieldUnsupported", "HostConfig", 0)>> ELSE NoFindings
             gs == Members("HostConfig", members, read, 0)
             one == Bad("HostConfig", 0)
  <1>1. IsFiniteSet(read)
    <2>1. HostMembers = {"CreateNetNS", "NoManageResolvConf", "NoManageHosts"}
                        \cup {"PortBindings", "Dns", "DnsSearch"} \cup {"DnsOptions", "ExtraHosts"}
      BY DEF HostMembers
    <2>2. IsFiniteSet(HostMembers)
      BY <2>1, SmallSets, FS_Union
    <2> QED
      BY <2>2, FS_Subset
  <1>2. Plain(gs)
    <2> HIDE DEF read
    <2> QED
      BY <1>1, PlainMembers
  <1>3. Plain(fs) /\ Plain(one)
    BY PlainLists
  <1>4. \E found \in {fs, gs, one} : decode_container_networking.findings = found
    BY DEF decode_container_networking
  <1> HIDE DEF fs, gs, one
  <1> QED
    BY <1>2, <1>3, <1>4

\* A step that adds no conflict.
Quiet == \A f \in Range(findings') : f \in Range(findings) \/ f.code # "CreationEvidenceConflict"

LEMMA QuietFacts ==
    ASSUME TypeOK
    PROVE  /\ findings' = findings => Quiet
           /\ \A fs : Plain(fs) /\ findings' = findings \o fs => Quiet
           /\ \A s, items, r : Turn(s, items, r) /\ Plain(r.findings) => Quiet
           /\ \A s, items, f, n : Leave(s, items, f, n) => Quiet
           /\ \A s, loop, f, v, next, path : Enter(s, loop, f, v, next, path) => Quiet
           /\ \A state : Conclude(state) => Quiet
           /\ \A hints, told : Evidence(hints, told) /\ Plain(told) => Quiet
  <1>1. findings' = findings => Quiet
    BY DEF Quiet
  <1>2. ASSUME NEW fs, Plain(fs), findings' = findings \o fs
        PROVE  Quiet
    <2>1. Range(findings') = Range(findings) \cup Range(fs)
      BY <1>2, Concatenation DEF TypeOK, Plain
    <2> QED
      BY <1>2, <2>1 DEF Quiet, Plain
  <1>3. ASSUME NEW s, NEW items, NEW r, Turn(s, items, r), Plain(r.findings)
        PROVE  Quiet
    BY <1>2, <1>3 DEF Turn
  <1>4. ASSUME NEW s, NEW items, NEW f, NEW n, Leave(s, items, f, n)
        PROVE  Quiet
    BY <1>1, <1>4 DEF Leave
  <1>5. ASSUME NEW s, NEW loop, NEW f, NEW v, NEW next, NEW path, Enter(s, loop, f, v, next, path)
        PROVE  Quiet
    <2> DEFINE told == IF v = None THEN NoFindings ELSE Bad(path, 0)
    <2>1. findings' = findings \/ findings' = findings \o told
      BY <1>5 DEF Enter
    <2>2. Plain(told)
      BY PlainLists
    <2> HIDE DEF told
    <2> QED
      BY <1>1, <1>2, <2>1, <2>2
  <1>6. ASSUME NEW state, Conclude(state)
        PROVE  Quiet
    <2> DEFINE told == Reported(state, "CreateCommand", 0)
    <2>1. findings' = findings \o told /\ Plain(told)
      BY <1>6, PlainLists DEF Conclude
    <2> HIDE DEF told
    <2> QED
      BY <1>2, <2>1
  <1>7. ASSUME NEW hints, NEW told, Evidence(hints, told), Plain(told)
        PROVE  Quiet
    BY <1>2, <1>7 DEF Evidence
  <1> QED
    BY <1>1, <1>2, <1>3, <1>4, <1>5, <1>6, <1>7

\* Only the steps that compare the command with the record report a conflict.
LEMMA QuietStep ==
    ASSUME ShapeInv, Next, ~DecodeImageHint, ~CorrelateMount
    PROVE  Quiet
  <1> USE DEF ShapeInv
  <1>1. CASE DecodeConfiguration \/ DecodeMountList \/ DecodeDependencyList
    BY <1>1, QuietFacts DEF DecodeConfiguration, DecodeMountList, DecodeDependencyList
  <1>2. CASE DecodeRelationships
    BY <1>2, QuietFacts DEF DecodeRelationships
  <1>3. CASE DecodeHostBinds
    <2>1. CASE findings' = findings
      BY <2>1, QuietFacts
    <2>2. CASE findings' # findings
      BY <1>3, <2>2, QuietFacts DEF DecodeHostBinds
    <2> QED
      BY <2>1, <2>2
  <1>4. CASE DecodeEnvironment
    <2> DEFINE items == native.env.items
               r == EnvironmentEntry(items[index], index)
    <2>1. Turn("environment", items, r) \/ Leave("environment", items, "environment", "references")
      BY <1>4 DEF DecodeEnvironment
    <2>2. Plain(r.findings)
      BY PlainTurns
    <2> HIDE DEF items, r
    <2> QED
      BY <2>1, <2>2, QuietFacts
  <1>5. CASE DecodeNetworks
    <2> DEFINE items == native.networks.items
               r == NetworkTurn(items[index], index)
    <2>1. Turn("networks", items, r) \/ Leave("networks", items, "networks", "attachments")
      BY <1>5 DEF DecodeNetworks, NetworkTurn
    <2>2. Plain(r.findings)
      BY PlainTurns
    <2> HIDE DEF items, r
    <2> QED
      BY <2>1, <2>2, QuietFacts
  <1>6. CASE DecodeAttachments
    <2> DEFINE items == native.networks.items
               r == AttachmentTurn(items[index], index)
    <2>1. \/ Turn("attachments", items, r) \/ findings' = findings
          \/ Leave("attachments", items, "attachments", "networking")
      BY <1>6, AttachmentsEffect
    <2>2. Plain(r.findings)
      BY PlainTurns
    <2> HIDE DEF items, r
    <2> QED
      BY <2>1, <2>2, QuietFacts
  <1>7. CASE DecodeBinds
    <2> DEFINE items == native.host.binds.items
               r == BindTurn(items[index], index)
               fs == r.findings
    <2>1. findings' = findings \o fs \/ Leave("binds", items, "binds", "mount_list")
      BY <1>7 DEF DecodeBinds
    <2>2. Plain(fs)
      BY PlainTurns
    <2> HIDE DEF items, fs
    <2> QED
      BY <2>1, <2>2, QuietFacts
  <1>8. CASE DecodeMounts
    <2> DEFINE items == native.mounts.items
               r == MountTurn(items[index], index)
    <2>1. Turn("mounts", items, r) \/ Leave("mounts", items, "mounts", "command")
      BY <1>8 DEF DecodeMounts
    <2>2. Plain(r.findings)
      BY PlainMount
    <2> HIDE DEF items, r
    <2> QED
      BY <2>1, <2>2, QuietFacts
  <1>9. CASE DecodeSecrets
    <2> DEFINE items == native.secrets.items
               r == SecretTurn(items[index], index)
    <2>1. Turn("secrets", items, r) \/ Leave("secrets", items, "secrets", "relationships")
      BY <1>9 DEF DecodeSecrets
    <2>2. Plain(r.findings)
      BY PlainSecret
    <2> HIDE DEF items, r
    <2> QED
      BY <2>1, <2>2, QuietFacts
  <1>10. CASE DecodeReferences
    <2> DEFINE x == Reported(optional_string_field(native.image), "Image", 0)
               y == Reported(optional_string_field(native.image_name), "ImageName", 0)
               z == Reported(decode_native_reference(native.pod), "Pod", 0)
    <2>1. findings' = findings \o x \o y \o z
      BY <1>10 DEF DecodeReferences
    <2>2. Plain(x) /\ Plain(y) /\ Plain(z)
      BY PlainLists
    <2> HIDE DEF x, y, z
    <2>3. /\ Sequence(findings) /\ Sequence(findings \o x) /\ Range(findings \o x) = Range(findings) \cup Range(x)
      BY <2>2, Concatenation DEF TypeOK, Plain
    <2>4. /\ Sequence(findings \o x \o y)
          /\ Range(findings \o x \o y) = Range(findings) \cup Range(x) \cup Range(y)
      BY <2>2, <2>3, Concatenation DEF Plain
    <2>5. Range(findings') = Range(findings) \cup Range(x) \cup Range(y) \cup Range(z)
      BY <2>1, <2>2, <2>4, Concatenation DEF Plain
    <2> QED
      BY <2>2, <2>5 DEF Quiet, Plain
  <1>11. CASE DecodeNetworkSettings
    <2> DEFINE path == IF native.settings = "other" THEN "NetworkSettings" ELSE "Networks"
               networks == IF native.settings = "other" THEN Other
                           ELSE IF native.settings = "none" THEN None ELSE native.networks
               state == IF networks = None THEN Absent ELSE Malformed
               told == Reported(state, path, 0)
    <2>1. findings' = findings \/ findings' = findings \o told
      BY <1>11 DEF DecodeNetworkSettings
    <2>2. Plain(told)
      BY PlainLists
    <2> HIDE DEF told
    <2> QED
      BY <2>1, <2>2, QuietFacts
  <1>12. CASE DecodeNetworking
    BY <1>12, PlainNetworking, QuietFacts DEF DecodeNetworking
  <1>13. CASE DecodeDependencies
    <2> DEFINE items == native.dependencies.items
               reference == decode_native_reference(items[index])
               r == Pushes(reference.value, NoFindings)
               one == Reported(reference, "Dependencies", index)
               two == Bad("Dependencies", 0)
    <2>1. Turn("dependencies", items, r) \/ findings' = findings \/ findings' = findings \o one \o two
      BY <1>13 DEF DecodeDependencies
    <2>2. Plain(one) /\ Plain(two) /\ Plain(NoFindings)
      BY PlainLists
    <2>3. r.findings = NoFindings
      BY TurnFacts
    <2> HIDE DEF items, r, one, two
    <2>4. CASE findings' = findings \o one \o two
      <3>1. /\ Sequence(findings \o one) /\ Range(findings \o one) = Range(findings) \cup Range(one)
        BY <2>2, Concatenation DEF TypeOK, Plain
      <3>2. Range(findings') = Range(findings) \cup Range(one) \cup Range(two)
        BY <2>2, <2>4, <3>1, Concatenation DEF Plain
      <3> QED
        BY <2>2, <3>2 DEF Quiet, Plain
    <2> QED
      BY <2>1, <2>2, <2>3, <2>4, QuietFacts
  <1>14. CASE DecodeSecretList
    <2> DEFINE secrets == IF native.config = "object" THEN native.secrets
                          ELSE IF native.config = "none" THEN None ELSE Other
               told == IF secrets = None \/ native.config = "other" THEN NoFindings ELSE Bad("Secrets", 0)
    <2>1. findings' = findings \/ findings' = findings \o told
      BY <1>14 DEF DecodeSecretList
    <2>2. Plain(told)
      BY PlainLists
    <2> HIDE DEF told
    <2> QED
      BY <2>1, <2>2, QuietFacts
  <1>15. CASE ParseCommand \/ ScanOption \/ EndOptions
    <2>1. findings' = findings \/ \E state : Conclude(state)
      BY <1>15 DEF ParseCommand, ScanOption, EndOptions
    <2> QED
      BY <2>1, QuietFacts
  <1>16. CASE EndCorrelation
    <2>1. \E hints : Evidence(hints, NoFindings) \/ Evidence(hints, Bad("CreateCommand", 0))
      BY <1>16 DEF EndCorrelation
    <2> QED
      BY <2>1, PlainLists, QuietFacts
  <1> QED
    BY <1>1, <1>2, <1>3, <1>4, <1>5, <1>6, <1>7, <1>8, <1>9, <1>10, <1>11, <1>12, <1>13, <1>14, <1>15, <1>16
    DEF Next

\* The record claims another relabel for mount k than the command asks for.
Contradicts(response, k) ==
    \E r : /\ ReadsCommand(response, r)
           /\ \E i \in 1..Len(r.mounts) :
                /\ Points(response, k, r.mounts[i])
                /\ ClaimsIn(response, response.mounts.items[k]) # {r.mounts[i].relabel}

\* Neither image of the record is the command's.
ImageDiffers(response) ==
    \E r, operand :
        /\ ReadTo(response.command.items, r, operand)
        /\ response.image.json = "string" /\ response.image_name.json = "string"
        /\ operand # response.image.text /\ operand # response.image_name.text
        /\ ~same_image_after_digest_tag_canonicalization(operand, response.image_name.text)

Justified(response, k) == IF k = 0 THEN ImageDiffers(response) ELSE Contradicts(response, k)
ConflictInv ==
    \A f \in Range(findings) : f.code = "CreationEvidenceConflict" => Justified(native, f.index)

\* The image fields, once they are decoded.
ImagesInv ==
    stage \notin ToReferences => /\ fields["local_image"] = optional_string_field(native.image)
                                 /\ fields["configured_image"] = optional_string_field(native.image_name)

LEMMA ConflictInit == Init => ConflictInv /\ ImagesInv
  <1>1. Init => findings = <<>> /\ stage = "configuration"
    BY DEF Init
  <1>2. Range(<<>>) = {}
    BY DEF Range
  <1> QED
    BY <1>1, <1>2 DEF ConflictInv, ImagesInv, ToReferences

LEMMA ImagesStep == ShapeInv /\ ImagesInv /\ [Next]_vars => ImagesInv'
  <1>0. ImagesInv /\ UNCHANGED vars => ImagesInv'
    <2> SUFFICES ASSUME ImagesInv, UNCHANGED vars
                 PROVE  ImagesInv'
      OBVIOUS
    <2>1. native' = native /\ stage' = stage /\ fields' = fields
      BY DEF vars
    <2> QED
      BY <2>1 DEF ImagesInv
  <1> SUFFICES ASSUME ShapeInv, ImagesInv, Next
               PROVE  ImagesInv'
    BY <1>0
  <1>1. Frame /\ Flow /\ stage \in Stages
    BY FrameStep DEF ShapeInv, TypeOK
  <1>2. native' = native
    BY <1>1 DEF Frame
  <1>3. CASE stage = "references"
    <2>1. DecodeReferences /\ TypeOK
      BY <1>3, StageActions DEF ShapeInv
    <2>2. /\ fields'["local_image"] = optional_string_field(native.image)
          /\ fields'["configured_image"] = optional_string_field(native.image_name)
      BY <2>1, ReferencesEffect
    <2> QED
      BY <1>2, <2>2 DEF ImagesInv
  <1>4. CASE stage # "references"
    <2>1. /\ fields'["local_image"] = fields["local_image"]
          /\ fields'["configured_image"] = fields["configured_image"]
      BY <1>1, <1>4 DEF Frame
    <2>2. stage' \notin ToReferences => stage \notin ToReferences
      BY <1>1, <1>4, StageSets DEF Flow, ToReferences
    <2> QED
      BY <1>2, <2>1, <2>2 DEF ImagesInv
  <1> QED
    BY <1>3, <1>4

\* One finding more.
LEMMA ConflictAdded ==
    ASSUME ShapeInv, ConflictInv, NEW f, findings' = Append(findings, f), native' = native,
           f.code = "CreationEvidenceConflict" => Justified(native, f.index)
    PROVE  ConflictInv'
  <1>1. Range(findings') = Range(findings) \cup {f}
    BY Appending DEF ShapeInv, TypeOK
  <1> QED
    BY <1>1 DEF ConflictInv

LEMMA ConflictImage ==
    ASSUME ShapeInv, ScanInv, ImagesInv, ConflictInv, DecodeImageHint
    PROVE  ConflictInv'
  <1> DEFINE configured == fields["configured_image"]
             local == fields["local_image"]
             hint == decode_authored_image_spelling_hint(configured, local)
             f == Finding("CreationEvidenceConflict", "CreateCommand", 0)
  <1>1. /\ stage = "image_hint" /\ native' = native
        /\ findings' = IF hint = Observed("Contradictory") THEN Append(findings, f) ELSE findings
    BY DEF DecodeImageHint
  <1>2. ReadTo(Arguments, relabels, image)
    BY <1>1 DEF ScanInv
  <1>3. /\ local = optional_string_field(native.image)
        /\ configured = optional_string_field(native.image_name)
    BY <1>1, StageSets DEF ImagesInv, ToReferences
  <1>4. ASSUME NEW v, IsObserved(optional_string_field(v))
        PROVE  v.json = "string" /\ optional_string_field(v).value = v.text
    BY <1>4, States DEF optional_string_field
  <1>5. CASE hint = Observed("Contradictory")
    <2>1. /\ IsObserved(configured) /\ IsObserved(local) /\ local.value # image /\ configured.value # image
          /\ ~same_image_after_digest_tag_canonicalization(image, configured.value)
      <3> HIDE DEF configured, local
      <3>1. /\ Observed("Contradictory") # Observed("MatchesConfiguredImage")
            /\ Observed("Contradictory") # Observed("MatchesLocalImageId")
            /\ Observed("Contradictory") # Unavailable
        <4>1. /\ Observed("Contradictory").value = "Contradictory"
              /\ Observed("MatchesConfiguredImage").value = "MatchesConfiguredImage"
              /\ Observed("MatchesLocalImageId").value = "MatchesLocalImageId"
          BY States
        <4>2. "Contradictory" # "MatchesConfiguredImage" /\ "Contradictory" # "MatchesLocalImageId"
          OBVIOUS
        <4> QED
          BY <4>1, <4>2, States
      <3> QED
        BY <1>5, <3>1, Zenon DEF decode_authored_image_spelling_hint
    <2>2. /\ native.image.json = "string" /\ local.value = native.image.text
          /\ native.image_name.json = "string" /\ configured.value = native.image_name.text
      BY <1>3, <1>4, <2>1
    <2>3. ImageDiffers(native)
      <3> HIDE DEF configured, local
      <3> QED
        BY <1>2, <2>1, <2>2 DEF ImageDiffers, Arguments
    <2>4. f.index = 0
      BY DEF Finding
    <2>5. findings' = Append(findings, f)
      BY <1>1, <1>5
    <2> HIDE DEF f
    <2> QED
      BY <1>1, <2>3, <2>4, <2>5, ConflictAdded DEF Justified
  <1>6. CASE hint # Observed("Contradictory")
    <2>1. findings' = findings
      BY <1>1, <1>6
    <2> QED
      BY <1>1, <2>1 DEF ConflictInv
  <1> QED
    BY <1>5, <1>6

LEMMA ConflictMount ==
    ASSUME ShapeInv, ScanInv, MountsInv, HintInv, ConflictInv, CorrelateMount
    PROVE  ConflictInv'
  <1> DEFINE mount == relabels.mounts[index]
             k == CHOOSE j \in Matching(mount) : TRUE
             relabel == fields["mounts"].value[k].relabel
             agrees == relabel = Observed(mount.relabel)
             f == Finding("CreationEvidenceConflict", "CreateCommand", k)
  <1>1. /\ stage = "correlate" /\ relabels.state = "Observed"
        /\ index <= Len(relabels.mounts) /\ IsObserved(fields["mounts"])
    BY DEF CorrelateMount
  <1>2. native' = native /\ TypeOK
    BY DEF CorrelateMount, Evidence, ShapeInv
  <1>3. CASE Evidence(Unavailable, NoFindings)
    <2>1. Quiet
      BY <1>2, <1>3, PlainLists, QuietFacts
    <2> QED
      BY <1>2, <2>1 DEF Quiet, ConflictInv
  <1>4. CASE ~Evidence(Unavailable, NoFindings)
    <2>1. /\ Cardinality(Matching(mount)) = 1 /\ IsObserved(relabel)
          /\ findings' = IF agrees THEN findings ELSE Append(findings, f)
      BY <1>4 DEF CorrelateMount
    <2>2. Points(native, k, mount) /\ (ClaimsIn(native, native.mounts.items[k]) = {mount.relabel} <=> agrees)
      <3> HIDE DEF mount, k, relabel
      <3>1. k = (CHOOSE j \in Matching(mount) : TRUE) /\ relabel = fields["mounts"].value[k].relabel
        BY DEF k, relabel
      <3> QED
        BY <1>1, <1>2, <2>1, <3>1, CorrelateTurn
    <2>3. f.index = k
      BY DEF Finding
    <2> HIDE DEF k, f
    <2>4. CASE agrees
      BY <1>2, <2>1, <2>4 DEF ConflictInv
    <2>5. CASE ~agrees
      <3>1. ReadsCommand(native, relabels) /\ Len(relabels.mounts) \in Nat
        BY <1>1, ReadRelabels
      <3>2. index \in 1..Len(relabels.mounts)
        BY <1>1, <1>2, <3>1 DEF TypeOK
      <3>3. Contradicts(native, k)
        BY <2>2, <2>5, <3>1, <3>2 DEF Contradicts
      <3>4. k \in 1..Len(native.mounts.items)
        BY <2>2 DEF Points
      <3>5. k # 0
        BY <3>4
      <3>6. Justified(native, f.index)
        BY <2>3, <3>3, <3>5 DEF Justified
      <3> QED
        BY <1>2, <2>1, <2>5, <3>6, ConflictAdded
    <2> QED
      BY <2>4, <2>5
  <1> QED
    BY <1>3, <1>4

LEMMA ConflictStep ==
    ShapeInv /\ ScanInv /\ MountsInv /\ HintInv /\ ImagesInv /\ ConflictInv /\ [Next]_vars => ConflictInv'
  <1>0. ConflictInv /\ UNCHANGED vars => ConflictInv'
    <2> SUFFICES ASSUME ConflictInv, UNCHANGED vars
                 PROVE  ConflictInv'
      OBVIOUS
    <2>1. native' = native /\ findings' = findings
      BY DEF vars
    <2> QED
      BY <2>1 DEF ConflictInv
  <1> SUFFICES ASSUME ShapeInv, ScanInv, MountsInv, HintInv, ImagesInv, ConflictInv, Next
               PROVE  ConflictInv'
    BY <1>0
  <1>1. CASE ~DecodeImageHint /\ ~CorrelateMount
    <2>1. Quiet
      BY <1>1, QuietStep
    <2>2. native' = native
      BY FrameStep DEF Frame
    <2> QED
      BY <2>1, <2>2 DEF Quiet, ConflictInv
  <1> QED
    BY <1>1, ConflictImage, ConflictMount

\* What the invariant says of a reported mount.
ClaimsOther(response, k, p) ==
    LET meant == PodmanMount(response.command.items, p)
        item == response.mounts.items[k]
    IN  /\ SourceOf(item) \in meant.sources /\ item.destination.text \in meant.destinations
        /\ ClaimsIn(response, item) # {} /\ ClaimsIn(response, item) # meant.labels
LEMMA ContradictsMeant ==
    ASSUME NEW response \in Containers, NEW r, ReadsCommand(response, r),
           NEW p \in AskedFor(response.command.items), NEW mount,
           mount = RelabelOf(response.command.items, p).mount, NEW k, Points(response, k, mount),
           ClaimsIn(response, response.mounts.items[k]) # {mount.relabel}
    PROVE  ClaimsOther(response, k, p)
  <1>1. MeansMount(response, p, k, mount)
    BY PointsAtMeant
  <1>2. ClaimsIn(response, response.mounts.items[k]) # {}
    BY DEF Points
  <1> QED
    BY <1>1, <1>2 DEF ClaimsOther, MeansMount

LEMMA ContradictsCommand ==
    ASSUME NEW response \in Containers, NEW k, Contradicts(response, k)
    PROVE  \E p \in AskedFor(response.command.items) : ClaimsOther(response, k, p)
  <1> DEFINE arguments == response.command.items
  <1>1. PICK r : /\ ReadsCommand(response, r)
                 /\ \E i \in 1..Len(r.mounts) :
                      /\ Points(response, k, r.mounts[i])
                      /\ ClaimsIn(response, response.mounts.items[k]) # {r.mounts[i].relabel}
    BY DEF Contradicts
  <1>2. PICK i \in 1..Len(r.mounts) :
          /\ Points(response, k, r.mounts[i])
          /\ ClaimsIn(response, response.mounts.items[k]) # {r.mounts[i].relabel}
    BY <1>1
  <1>3. PICK operand : r.state = "Observed" /\ ReadTo(arguments, r, operand)
    BY <1>1 DEF ReadsCommand
  <1>4. TellsMounts(arguments, AskedFor(arguments), r)
    BY <1>3, AskedObserved
  <1>5. PICK p \in AskedFor(arguments) : r.mounts[i] = RelabelOf(arguments, p).mount
    BY <1>4 DEF TellsMounts
  <1> DEFINE mount == r.mounts[i]
  <1>6. /\ Points(response, k, mount) /\ mount = RelabelOf(arguments, p).mount
        /\ ClaimsIn(response, response.mounts.items[k]) # {mount.relabel}
        /\ ReadsCommand(response, r)
    BY <1>1, <1>2, <1>5
  <1> HIDE DEF mount
  <1>7. ClaimsOther(response, k, p)
    BY <1>6, ContradictsMeant
  <1> QED
    BY <1>7

\* A reference that is the other without its tag is the other, or the one
\* same_image_after_digest_tag_canonicalization takes for it.
LEMMA UntaggedReference ==
    ASSUME NEW a \in DOMAIN Parts, NEW c \in DOMAIN Parts, a # c, Parts[c].tag = "",
           Parts[c].name = Parts[a].name, Parts[c].digest = Parts[a].digest
    PROVE  same_image_after_digest_tag_canonicalization(a, c)
  BY PartsAssumption DEF same_image_after_digest_tag_canonicalization

\* A conflict that decode_container reports is one: the record claims for the
\* mount another relabel than the command asks for, or names by neither of its
\* spellings the image the command names.
THEOREM ConflictsAreTrue == Spec => []ConflictsAreReal
  <1> DEFINE Inv == /\ ShapeInv /\ BoundInv /\ BindsInv /\ MountsInv /\ ScanInv /\ HintInv
                    /\ ImagesInv /\ ConflictInv
  <1>1. Init => Inv
    BY ShapeInit, BoundInit, BindsInit, MountsInit, ScanInit, HintInit, ConflictInit
  <1>2. Inv /\ [Next]_vars => Inv'
    BY ShapeStep, BoundStep, BindsStep, MountsStep, ScanStep, HintStep, ImagesStep, ConflictStep
  <1>3. Inv => ConflictsAreReal
    <2> SUFFICES ASSUME ShapeInv, ConflictInv
                 PROVE  ConflictsAreReal
      OBVIOUS
    <2>1. native \in Containers /\ Sequence(findings)
      BY DEF ShapeInv, TypeOK
    <2>2. \A k \in Conflicts : Justified(native, k)
      BY <2>1, SequenceFacts DEF Conflicts, ConflictInv
    <2>3. Arguments = native.command.items
      BY DEF Arguments
    <2>4. \A mount : Claims(mount) = ClaimsIn(native, mount)
      BY DEF Claims, ClaimsIn
    <2>5. ASSUME NEW k \in Conflicts \ {0}
          PROVE  \E p \in AskedFor(Arguments) :
                   LET meant == PodmanMount(Arguments, p)
                   IN  /\ SourceOf(native.mounts.items[k]) \in meant.sources
                       /\ native.mounts.items[k].destination.text \in meant.destinations
                       /\ Claims(native.mounts.items[k]) \notin {{}, meant.labels}
      <3>1. Contradicts(native, k)
        BY <2>2, <2>5 DEF Justified
      <3> QED
        BY <2>1, <2>3, <2>4, <3>1, ContradictsCommand DEF ClaimsOther
    <2>6. ASSUME 0 \in Conflicts
          PROVE  LET operand == Arguments[PodmanOperand(Arguments)].name
                 IN  /\ native.image.json = "string" /\ native.image_name.json = "string"
                     /\ operand \notin {native.image.text, native.image_name.text}
                     /\ ~ /\ {operand, native.image_name.text} \subseteq DOMAIN Parts
                          /\ Parts[native.image_name.text].tag = ""
                          /\ Parts[native.image_name.text].name = Parts[operand].name
                          /\ Parts[native.image_name.text].digest = Parts[operand].digest
      <3> DEFINE name == Arguments[PodmanOperand(Arguments)].name
                 configured == native.image_name.text
      <3>1. ImageDiffers(native)
        BY <2>2, <2>6 DEF Justified
      <3>2. /\ native.image.json = "string" /\ native.image_name.json = "string"
            /\ name # native.image.text /\ name # configured
            /\ ~same_image_after_digest_tag_canonicalization(name, configured)
        BY <2>3, <3>1 DEF ImageDiffers, ReadTo
      <3> HIDE DEF name, configured
      <3>3. ~(/\ {name, configured} \subseteq DOMAIN Parts
              /\ Parts[configured].tag = "" /\ Parts[configured].name = Parts[name].name
              /\ Parts[configured].digest = Parts[name].digest)
        BY <3>2, UntaggedReference
      <3> QED
        BY <3>2, <3>3 DEF name, configured
    <2> QED
      BY <2>5, <2>6 DEF ConflictsAreReal
  <1> HIDE DEF Inv
  <1> QED
    BY <1>1, <1>2, <1>3, PTL DEF Spec

=============================================================================
