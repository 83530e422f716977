------------------------- MODULE BfsIteratorProofs -------------------------
(***************************************************************************)
(* Proofs about the iterator, for every graph, every set of start nodes    *)
(* and any number of nodes rewritten on the way; and about phi_inserter,   *)
(* which works through it, for every set of edges that need a phi edge.    *)
(*                                                                         *)
(* The nodes delivered and the nodes enqueued, one after the other, only   *)
(* ever grow at the end: a step appends the neighbours that are not seen   *)
(* yet, or the next start node.  That is what the invariants are about.    *)
(* The order of a search from one node follows from two more facts about   *)
(* the line: every node but the first was enqueued for a node before it,   *)
(* and neighbours come in the order of the nodes they are neighbours of.   *)
(***************************************************************************)
EXTENDS PhiInserter, FiniteSetTheorems, WellFoundedInduction, TLAPS

\* What was delivered, followed by what is enqueued.
Line == passed \o inner_component

\* What a node may occur in a line: twice if it is a start node that was reached
\* over an edge, and once otherwise.
Twice(line, sn) ==
  \A i, j \in DOMAIN line : i < j /\ line[i] = line[j] =>
    /\ line[i] \in starts \cap sn
    /\ \A k \in DOMAIN line : line[k] = line[i] => k \in {i, j}

\* What holds of a line, the start nodes to come and the nodes seen.
LineInv(line, cs, sn) ==
  /\ \A i, j \in DOMAIN cs : cs[i] = cs[j] => i = j
  /\ Range(cs) \subseteq starts
  /\ starts \subseteq Range(cs) \cup Range(line)
  /\ sn \subseteq Range(line)
  /\ Range(line) \subseteq starts \cup sn
  /\ \A n \in Range(cs) \ sn : n \notin Range(line)
  /\ Twice(line, sn)

\* The inductive invariant.  A node that was left has no neighbour that is not
\* seen, unless the iterator is there again and its edges were rewritten.
IInv ==
  /\ TypeOK
  /\ LineInv(Line, components, seen)
  /\ \A e \in edges : e[1] \in expanded /\ e[2] \notin seen =>
       ~end /\ e[1] = Head(inner_component)

-----------------------------------------------------------------------------

\* A set of ids has its elements in order, each once.
LEMMA AscendingSeq ==
  ASSUME NEW S \in SUBSET Node, NEW s \in Ascending(S)
  PROVE  /\ s \in Seq(Node) /\ Range(s) = S
         /\ \A i, j \in DOMAIN s : s[i] = s[j] => i = j
         /\ S = {} <=> s = <<>>
<1>1. Cardinality(S) \in Nat
  BY NodeAssumption, FS_Subset, FS_CardinalityType
<1>2. s \in [1..Cardinality(S) -> S] /\ Range(s) = S /\ s \in Seq(Node)
  BY <1>1 DEF Ascending
<1>3. ASSUME NEW i \in DOMAIN s, NEW j \in DOMAIN s, s[i] = s[j]
      PROVE  i = j
  <2>1. i \in Int /\ j \in Int /\ s[i] \in Int
    <3>1. DOMAIN s = 1..Cardinality(S) /\ s[i] \in S
      BY <1>2
    <3>2. S \subseteq Nat
      BY NodeAssumption
    <3>3. s[i] \in Nat
      BY <3>1, <3>2, Zenon
    <3>4. i \in 1..Cardinality(S) /\ j \in 1..Cardinality(S)
      BY <3>1, Zenon
    <3>5. QED
      BY <1>1, <3>3, <3>4
  <2>2. ~(i < j) /\ ~(j < i)
    BY <1>3, <2>1 DEF Ascending
  <2>3. QED
    BY <2>1, <2>2
<1>4. S = {} <=> s = <<>>
  <2>1. S = {} => s = <<>>
    BY <1>2, FS_EmptySet
  <2>2. s = <<>> => S = {}
    BY <1>2 DEF Range
  <2>3. QED
    BY <2>1, <2>2
<1>5. QED
  BY <1>2, <1>3, <1>4

\* The elements of sequences put together and taken apart.
LEMMA Ranges ==
  ASSUME NEW s \in Seq(Node), NEW t \in Seq(Node)
  PROVE  /\ s \o t \in Seq(Node)
         /\ Range(s \o t) = Range(s) \cup Range(t)
         /\ s # <<>> => /\ Head(s) \in Node /\ Tail(s) \in Seq(Node)
                        /\ Append(t, Head(s)) \o Tail(s) = t \o s
                        /\ Range(s) = {Head(s)} \cup Range(Tail(s))
         /\ \A n \in Node : Append(s, n) \in Seq(Node) /\ Range(Append(s, n)) = Range(s) \cup {n}
<1>1. s \o t \in Seq(Node)
  OBVIOUS
<1>2. Range(s \o t) = Range(s) \cup Range(t)
  <2>1. ASSUME NEW n \in Range(s) PROVE n \in Range(s \o t)
    <3>1. PICK i \in DOMAIN s : n = s[i]
      BY DEF Range
    <3>2. i \in DOMAIN (s \o t) /\ (s \o t)[i] = n
      BY <3>1
    <3>3. QED
      BY <3>2 DEF Range
  <2>2. ASSUME NEW n \in Range(t) PROVE n \in Range(s \o t)
    <3>1. PICK i \in DOMAIN t : n = t[i]
      BY DEF Range
    <3>2. Len(s) + i \in DOMAIN (s \o t) /\ (s \o t)[Len(s) + i] = n
      BY <3>1
    <3>3. QED
      BY <3>2 DEF Range
  <2>3. ASSUME NEW n \in Range(s \o t) PROVE n \in Range(s) \cup Range(t)
    <3>1. PICK i \in DOMAIN (s \o t) : n = (s \o t)[i]
      BY DEF Range
    <3>2. CASE i <= Len(s)
      <4>1. i \in DOMAIN s /\ n = s[i]
        BY <3>1, <3>2
      <4>2. QED
        BY <4>1 DEF Range
    <3>3. CASE i > Len(s)
      <4>1. i - Len(s) \in DOMAIN t /\ n = t[i - Len(s)]
        BY <3>1, <3>3
      <4>2. QED
        BY <4>1 DEF Range
    <3>4. QED
      BY <3>1, <3>2, <3>3
  <2>4. QED
    BY <2>1, <2>2, <2>3
<1>3. ASSUME s # <<>>
      PROVE  /\ Head(s) \in Node /\ Tail(s) \in Seq(Node)
             /\ Append(t, Head(s)) \o Tail(s) = t \o s
             /\ Range(s) = {Head(s)} \cup Range(Tail(s))
  <2>1. Head(s) \in Node /\ Tail(s) \in Seq(Node)
    BY <1>3
  <2>2. Append(t, Head(s)) \o Tail(s) = t \o s
    BY <1>3
  <2>3. ASSUME NEW n \in Range(s) PROVE n \in {Head(s)} \cup Range(Tail(s))
    <3>1. PICK i \in DOMAIN s : n = s[i]
      BY DEF Range
    <3>2. i = 1 \/ (i - 1 \in DOMAIN Tail(s) /\ n = Tail(s)[i - 1])
      BY <1>3, <3>1
    <3>3. QED
      BY <1>3, <3>1, <3>2 DEF Range
  <2>4. ASSUME NEW n \in Range(Tail(s)) PROVE n \in Range(s)
    <3>1. PICK i \in DOMAIN Tail(s) : n = Tail(s)[i]
      BY DEF Range
    <3>2. i + 1 \in DOMAIN s /\ n = s[i + 1]
      BY <1>3, <3>1
    <3>3. QED
      BY <3>2 DEF Range
  <2>5. Head(s) \in Range(s)
    BY <1>3 DEF Range
  <2>6. QED
    BY <2>1, <2>2, <2>3, <2>4, <2>5
<1>4. ASSUME NEW n \in Node
      PROVE  Append(s, n) \in Seq(Node) /\ Range(Append(s, n)) = Range(s) \cup {n}
  <2>1. Append(s, n) \in Seq(Node)
    OBVIOUS
  <2>2. ASSUME NEW m \in Range(Append(s, n)) PROVE m \in Range(s) \cup {n}
    <3>1. PICK i \in DOMAIN Append(s, n) : m = Append(s, n)[i]
      BY DEF Range
    <3>2. m = n \/ (i \in DOMAIN s /\ m = s[i])
      BY <3>1
    <3>3. QED
      BY <3>2 DEF Range
  <2>3. ASSUME NEW m \in Range(s) PROVE m \in Range(Append(s, n))
    <3>1. PICK i \in DOMAIN s : m = s[i]
      BY DEF Range
    <3>2. i \in DOMAIN Append(s, n) /\ m = Append(s, n)[i]
      BY <3>1
    <3>3. QED
      BY <3>2 DEF Range
  <2>4. n \in Range(Append(s, n))
    <3>1. Len(s) + 1 \in DOMAIN Append(s, n) /\ Append(s, n)[Len(s) + 1] = n
      OBVIOUS
    <3>2. QED
      BY <3>1 DEF Range
  <2>5. QED
    BY <2>1, <2>2, <2>3, <2>4
<1>5. QED
  BY <1>1, <1>2, <1>3, <1>4

\* Nodes not seen yet can be added to a line, each once, when they are seen then.
LEMMA AddUnseen ==
  ASSUME NEW line \in Seq(Node), NEW to \in Seq(Node), NEW sn,
         \A i, j \in DOMAIN to : to[i] = to[j] => i = j,
         Range(to) \cap sn = {}, Range(line) \subseteq starts \cup sn, Twice(line, sn)
  PROVE  Twice(line \o to, sn \cup Range(to))
<1> DEFINE new == line \o to
<1>1. ASSUME NEW i \in DOMAIN new
      PROVE  \/ i \in DOMAIN line /\ new[i] = line[i] /\ new[i] \in Range(line)
             \/ /\ i \notin DOMAIN line /\ i - Len(line) \in DOMAIN to
                /\ new[i] = to[i - Len(line)] /\ new[i] \in Range(to)
  <2>1. CASE i <= Len(line)
    <3>1. i \in DOMAIN line /\ new[i] = line[i]
      BY <2>1
    <3>2. QED
      BY <3>1 DEF Range
  <2>2. CASE i > Len(line)
    <3>1. i \notin DOMAIN line /\ i - Len(line) \in DOMAIN to /\ new[i] = to[i - Len(line)]
      BY <2>2
    <3>2. QED
      BY <3>1 DEF Range
  <2>3. QED
    BY <2>1, <2>2
<1>2. DOMAIN new \subseteq Nat /\ DOMAIN line = 1..Len(line) /\ Len(line) \in Nat
  OBVIOUS
<1>3. ASSUME NEW i \in DOMAIN new, NEW j \in DOMAIN new, i < j, new[i] = new[j]
      PROVE  /\ new[i] \in starts \cap (sn \cup Range(to))
             /\ \A k \in DOMAIN new : new[k] = new[i] => k \in {i, j}
  <2>1. CASE j \in DOMAIN line
    <3>1. i \in DOMAIN line
      BY <1>2, <1>3, <2>1
    <3>2. new[i] = line[i] /\ new[j] = line[j]
      BY <1>1, <2>1, <3>1
    <3>3. line[i] \in starts \cap sn /\ \A k \in DOMAIN line : line[k] = line[i] => k \in {i, j}
      BY <1>3, <2>1, <3>1, <3>2 DEF Twice
    <3>4. ASSUME NEW k \in DOMAIN new, new[k] = new[i] PROVE k \in {i, j}
      BY <1>1, <3>2, <3>3, <3>4
    <3>5. QED
      BY <3>2, <3>3, <3>4
  <2>2. CASE j \notin DOMAIN line
    <3>1. new[j] \in Range(to) /\ j - Len(line) \in DOMAIN to /\ new[j] = to[j - Len(line)]
      BY <1>1, <2>2
    <3>2. ASSUME NEW k \in DOMAIN new, k \notin DOMAIN line, new[k] = new[j]
          PROVE  k = j
      <4>1. k - Len(line) = j - Len(line)
        BY <1>1, <3>1, <3>2
      <4>2. QED
        BY <1>2, <4>1
    <3>3. i \in DOMAIN line
      BY <1>2, <1>3, <3>2
    <3>4. new[i] = line[i] /\ line[i] \in Range(line) /\ line[i] \notin sn
      BY <1>1, <1>3, <3>1, <3>3
    <3>5. ASSUME NEW k \in DOMAIN line, line[k] = line[i] PROVE k = i
      <4>1. ~(k < i) /\ ~(i < k)
        BY <3>3, <3>4, <3>5 DEF Twice
      <4>2. QED
        BY <1>2, <3>3, <4>1
    <3>6. ASSUME NEW k \in DOMAIN new, new[k] = new[i] PROVE k \in {i, j}
      BY <1>1, <1>3, <3>2, <3>4, <3>5, <3>6
    <3>7. QED
      BY <1>3, <3>1, <3>4, <3>6
  <2>3. QED
    BY <2>1, <2>2
<1>4. QED
  BY <1>3 DEF Twice

\* A node that is not in the line can be added to it.
LEMMA AddNew ==
  ASSUME NEW line \in Seq(Node), NEW n \in Node, NEW sn,
         n \notin Range(line), Twice(line, sn)
  PROVE  Twice(Append(line, n), sn)
<1> DEFINE new == Append(line, n)
<1>1. \A i \in DOMAIN new : \/ i \in DOMAIN line /\ new[i] = line[i] /\ new[i] \in Range(line)
                            \/ i = Len(line) + 1 /\ new[i] = n
  BY DEF Range
<1>2. \A i, j \in DOMAIN new : i < j /\ new[i] = new[j] => i \in DOMAIN line /\ j \in DOMAIN line
  BY <1>1
<1>3. \A i, k \in DOMAIN new : i \in DOMAIN line /\ new[k] = new[i] => k \in DOMAIN line
  BY <1>1
<1>4. QED
  BY <1>1, <1>2, <1>3 DEF Twice

\* check_next_component keeps the invariant of the containers.
LEMMA NextComponent ==
  ASSUME NEW p \in Seq(Node), NEW q \in Seq(Node), NEW cs \in Seq(Node), NEW sn,
         LineInv(p \o q, cs, sn), CheckNextComponent(q, cs, sn)
  PROVE  /\ inner_component' \in Seq(Node) /\ components' \in Seq(Node)
         /\ end' \in BOOLEAN /\ (end' <=> inner_component' = <<>>) /\ (end' => components' = <<>>)
         /\ LineInv(p \o inner_component', components', sn)
<1>1. CASE q # <<>>
  BY <1>1 DEF CheckNextComponent
<1>2. CASE q = <<>> /\ inner_component' = <<>> /\ components' = <<>> /\ end' = TRUE
           /\ \A i \in DOMAIN cs : cs[i] \in sn
  <2>1. Range(cs) \subseteq sn
    BY <1>2 DEF Range
  <2>2. Range(components') = {} /\ DOMAIN components' = {}
    BY <1>2 DEF Range
  <2>3. QED
    BY <1>2, <2>1, <2>2 DEF LineInv
<1>3. ASSUME NEW i \in DOMAIN cs, q = <<>>, cs[i] \notin sn, \A j \in 1..(i - 1) : cs[j] \in sn,
             inner_component' = <<cs[i]>>, components' = SubSeq(cs, i + 1, Len(cs)), end' = FALSE
      PROVE  /\ inner_component' \in Seq(Node) /\ components' \in Seq(Node)
             /\ end' \in BOOLEAN /\ (end' <=> inner_component' = <<>>) /\ (end' => components' = <<>>)
             /\ LineInv(p \o inner_component', components', sn)
  <2> DEFINE n == cs[i]
             rest == SubSeq(cs, i + 1, Len(cs))
  <2>1. n \in Node /\ n \in Range(cs) /\ <<n>> # <<>>
    BY DEF Range
  <2>2. p \o q = p /\ p \o <<n>> = Append(p, n)
    BY <1>3, <2>1
  <2>3. /\ rest \in Seq(Node)
        /\ \A k \in DOMAIN rest : i + k \in DOMAIN cs /\ rest[k] = cs[i + k]
        /\ DOMAIN rest \subseteq Nat \ {0}
    OBVIOUS
  <2>4. Range(cs) \subseteq sn \cup {n} \cup Range(rest)
    <3>1. ASSUME NEW j \in DOMAIN cs PROVE cs[j] \in sn \cup {n} \cup Range(rest)
      <4>1. CASE j < i
        BY <1>3, <4>1
      <4>2. CASE j > i
        <5>1. j - i \in DOMAIN rest /\ rest[j - i] = cs[j]
          BY <4>2
        <5>2. QED
          BY <5>1 DEF Range
      <4>3. QED
        BY <4>1, <4>2
    <3>2. QED
      BY <3>1 DEF Range
  <2>5. Range(rest) \subseteq Range(cs) /\ n \notin Range(rest)
    <3>1. ASSUME NEW k \in DOMAIN rest PROVE rest[k] \in Range(cs) /\ rest[k] # n
      <4>1. i + k \in DOMAIN cs /\ rest[k] = cs[i + k] /\ i + k # i
        BY <2>3
      <4>2. QED
        BY <1>3, <4>1 DEF LineInv, Range
    <3>2. QED
      BY <3>1 DEF Range
  <2>6. \A k, l \in DOMAIN rest : rest[k] = rest[l] => k = l
    <3>1. ASSUME NEW k \in DOMAIN rest, NEW l \in DOMAIN rest, rest[k] = rest[l] PROVE k = l
      <4>1. i + k = i + l
        BY <2>3, <3>1 DEF LineInv
      <4>2. QED
        BY <2>3, <4>1
    <3>2. QED
      BY <3>1
  <2> HIDE DEF rest
  <2>7. n \notin Range(p)
    BY <1>3, <2>1, <2>2 DEF LineInv
  <2>8. Append(p, n) \in Seq(Node) /\ Range(Append(p, n)) = Range(p) \cup {n}
    BY <2>1, Ranges
  <2>9. Twice(Append(p, n), sn)
    BY <2>1, <2>2, <2>7, AddNew DEF LineInv
  <2>10. LineInv(Append(p, n), rest, sn)
    <3>1. /\ starts \subseteq Range(cs) \cup Range(p) /\ Range(cs) \subseteq starts
          /\ sn \subseteq Range(p) /\ Range(p) \subseteq starts \cup sn
          /\ \A m \in Range(cs) \ sn : m \notin Range(p)
      BY <2>2 DEF LineInv
    <3>2. QED
      BY <2>1, <2>4, <2>5, <2>6, <2>8, <2>9, <3>1 DEF LineInv
  <2>11. /\ inner_component' = <<n>> /\ components' = rest /\ end' = FALSE /\ <<n>> \in Seq(Node)
    BY <1>3, <2>1 DEF rest
  <2>12. LineInv(p \o inner_component', components', sn)
    BY <2>2, <2>10, <2>11
  <2>13. QED
    BY <2>1, <2>3, <2>11, <2>12
<1>4. QED
  BY <1>1, <1>2, <1>3 DEF CheckNextComponent

-----------------------------------------------------------------------------
(* The invariant *)

\* The constructors establish the invariant: the line is the first start node.
LEMMA InitInv == Init => IInv
<1> SUFFICES ASSUME Init PROVE IInv
  OBVIOUS
<1>1. /\ edges \subseteq Node \X Node /\ starts \in SUBSET Node /\ seen = {} /\ passed = <<>>
      /\ expanded = {} /\ rewrites = 0 /\ end = (starts = {})
  BY MayEdgeAssumption, AddressNodesAssumption DEF Init
<1>2. PICK cs \in Ascending(starts) :
         IF starts = {} THEN inner_component = <<>> /\ components = <<>>
         ELSE inner_component = <<Head(cs)>> /\ components = Tail(cs)
  BY DEF Init
<1>3. /\ cs \in Seq(Node) /\ Range(cs) = starts /\ \A i, j \in DOMAIN cs : cs[i] = cs[j] => i = j
      /\ starts = {} <=> cs = <<>>
  BY <1>1, AscendingSeq
<1>4. CASE starts = {}
  <2>1. /\ inner_component = <<>> /\ components = <<>> /\ Line = <<>> /\ end = TRUE
    <3>1. inner_component = <<>> /\ components = <<>>
      BY <1>2, <1>4
    <3>2. Line = <<>>
      BY <1>1, <3>1 DEF Line
    <3>3. end = TRUE
      BY <1>1, <1>4, Zenon
    <3>4. QED
      BY <3>1, <3>2, <3>3
  <2>2. Range(<<>>) = {} /\ DOMAIN <<>> = {} /\ <<>> \in Seq(Node)
    BY DEF Range
  <2>3. TypeOK
    BY <1>1, <2>1, <2>2, MaxRewritesAssumption DEF TypeOK
  <2>4. LineInv(Line, components, seen)
    BY <1>1, <1>4, <2>1, <2>2 DEF LineInv, Twice
  <2>5. QED
    BY <1>1, <2>3, <2>4 DEF IInv
<1>5. CASE starts # {}
  <2> DEFINE n == Head(cs)
             rest == Tail(cs)
  <2>1. /\ inner_component = <<n>> /\ components = rest /\ Line = <<n>> /\ end = FALSE
    <3>1. inner_component = <<n>> /\ components = rest
      BY <1>2, <1>5
    <3>2. n \in Node
      BY <1>3, <1>5, Ranges
    <3>3. Line = <<n>>
      <4> HIDE DEF n
      <4> QED BY <1>1, <3>1, <3>2 DEF Line
    <3>4. end = FALSE
      BY <1>1, <1>5, Zenon
    <3>5. QED
      BY <3>1, <3>3, <3>4
  <2>2. /\ n \in Node /\ rest \in Seq(Node) /\ Range(cs) = {n} \cup Range(rest)
    BY <1>3, <1>5, Ranges
  <2>3. Range(<<n>>) = {n} /\ DOMAIN <<n>> = {1} /\ <<n>> \in Seq(Node) /\ <<n>> # <<>>
    BY <2>2 DEF Range
  <2>4. \A k \in DOMAIN rest : k \in Nat \ {0} /\ k + 1 \in DOMAIN cs /\ rest[k] = cs[k + 1]
    BY <1>3, <1>5
  <2>5. 1 \in DOMAIN cs /\ n = cs[1]
    BY <1>3, <1>5
  <2>6. \A k, l \in DOMAIN rest : rest[k] = rest[l] => k = l
    BY <1>3, <2>4
  <2>7. n \notin Range(rest)
    BY <1>3, <2>4, <2>5 DEF Range
  <2> HIDE DEF n, rest
  <2>8. TypeOK
    BY <1>1, <2>1, <2>2, <2>3, MaxRewritesAssumption DEF TypeOK
  <2>9. Twice(<<n>>, seen)
    BY <2>3 DEF Twice
  <2>10. LineInv(Line, components, seen)
    BY <1>1, <1>3, <2>1, <2>2, <2>3, <2>6, <2>7, <2>9 DEF LineInv
  <2>11. QED
    BY <1>1, <2>8, <2>10 DEF IInv
<1>6. QED
  BY <1>4, <1>5

\* operator++ keeps the invariant: the line grows by the neighbours not seen yet,
\* and then by a start node when the queue is empty.
LEMMA AdvanceInv == IInv /\ Advance => IInv'
<1> SUFFICES ASSUME IInv, Advance PROVE IInv'
  OBVIOUS
<1> DEFINE n == Head(inner_component)
           found == Targets(n)
<1>1. PICK to \in Ascending(found) : CheckNextComponent(Enqueued(to), components, seen \cup found)
  BY DEF Advance
<1>2. /\ seen' = seen \cup found /\ passed' = Append(passed, n) /\ expanded' = expanded \cup {n}
      /\ edges' = edges /\ starts' = starts /\ rewrites' = rewrites /\ ~end
  BY DEF Advance
<1>3. /\ TypeOK /\ LineInv(Line, components, seen) /\ inner_component \in Seq(Node)
      /\ inner_component # <<>> /\ passed \in Seq(Node) /\ components \in Seq(Node)
  BY <1>2 DEF IInv, TypeOK
<1>4. found \in SUBSET Node /\ found \cap seen = {}
  BY DEF Targets
<1>5. to \in Seq(Node) /\ Range(to) = found /\ \A i, j \in DOMAIN to : to[i] = to[j] => i = j
  BY <1>4, AscendingSeq
<1>6. n \in Node /\ Tail(inner_component) \in Seq(Node) /\ Enqueued(to) \in Seq(Node)
  BY <1>3, <1>5, Ranges DEF Enqueued
<1>7. passed' \in Seq(Node) /\ Range(passed') = Range(passed) \cup {n}
  BY <1>2, <1>3, <1>6, Ranges
<1>8. Line \in Seq(Node) /\ Line \o to \in Seq(Node) /\ Range(Line \o to) = Range(Line) \cup found
  <2>1. Line \in Seq(Node)
    BY <1>3, Ranges DEF Line
  <2> HIDE DEF found
  <2>2. QED
    BY <1>5, <2>1, Ranges
<1>9. passed' \o Enqueued(to) = Line \o to
  <2>1. Append(passed, n) \o Tail(inner_component) = Line
    BY <1>3, Ranges DEF Line
  <2>2. passed' \o (Tail(inner_component) \o to) = (passed' \o Tail(inner_component)) \o to
    BY <1>5, <1>6, <1>7
  <2>3. QED
    BY <1>2, <2>1, <2>2 DEF Enqueued
<1>10. LineInv(passed' \o Enqueued(to), components, seen \cup found)
  <2>1. Twice(Line \o to, seen \cup found)
    BY <1>3, <1>4, <1>5, <1>8, AddUnseen DEF LineInv
  <2>2. QED
    BY <1>3, <1>8, <1>9, <2>1 DEF LineInv
<1>11. /\ inner_component' \in Seq(Node) /\ components' \in Seq(Node)
       /\ end' \in BOOLEAN /\ (end' <=> inner_component' = <<>>) /\ (end' => components' = <<>>)
       /\ LineInv(passed' \o inner_component', components', seen \cup found)
  <2> HIDE DEF found
  <2>1. QED
    BY <1>1, <1>3, <1>6, <1>7, <1>10, NextComponent
<1>12. TypeOK'
  BY <1>2, <1>3, <1>4, <1>6, <1>7, <1>11 DEF TypeOK
<1>13. LineInv(Line, components, seen)'
  BY <1>2, <1>11 DEF LineInv, Twice, Line
<1>14. (\A e \in edges : e[1] \in expanded /\ e[2] \notin seen =>
          ~end /\ e[1] = Head(inner_component))'
  <2>1. ASSUME NEW e \in edges, e[1] \in expanded \cup {n}, e[2] \notin seen \cup found
        PROVE  FALSE
    <3>1. e[1] = n
      BY <2>1 DEF IInv
    <3>2. e = <<n, e[2]>> /\ e[2] \in Node
      BY <1>3, <2>1, <3>1 DEF TypeOK
    <3>3. QED
      BY <2>1, <3>2 DEF Targets
  <2>2. QED
    BY <1>2, <2>1
<1>15. QED
  BY <1>12, <1>13, <1>14 DEF IInv

\* skip keeps it: a skipped node need not have its neighbours delivered.
LEMMA SkipInv == IInv /\ Skip => IInv'
<1> SUFFICES ASSUME IInv, Skip PROVE IInv'
  OBVIOUS
<1> DEFINE n == Head(inner_component)
<1>1. /\ CheckNextComponent(Tail(inner_component), components, seen)
      /\ passed' = Append(passed, n) /\ expanded' = expanded \ {n} /\ ~end
      /\ edges' = edges /\ starts' = starts /\ seen' = seen /\ rewrites' = rewrites
  BY DEF Skip
<1>2. /\ TypeOK /\ LineInv(Line, components, seen) /\ inner_component \in Seq(Node)
      /\ inner_component # <<>> /\ passed \in Seq(Node) /\ components \in Seq(Node)
  BY <1>1 DEF IInv, TypeOK
<1>3. n \in Node /\ Tail(inner_component) \in Seq(Node)
  BY <1>2, Ranges
<1>4. passed' \in Seq(Node) /\ Range(passed') = Range(passed) \cup {n}
  BY <1>1, <1>2, <1>3, Ranges
<1>5. passed' \o Tail(inner_component) = Line
  BY <1>1, <1>2, Ranges DEF Line
<1>6. /\ inner_component' \in Seq(Node) /\ components' \in Seq(Node)
      /\ end' \in BOOLEAN /\ (end' <=> inner_component' = <<>>) /\ (end' => components' = <<>>)
      /\ LineInv(passed' \o inner_component', components', seen)
  BY <1>1, <1>2, <1>3, <1>4, <1>5, NextComponent
<1>7. TypeOK'
  BY <1>1, <1>2, <1>4, <1>6 DEF TypeOK
<1>8. LineInv(Line, components, seen)'
  BY <1>1, <1>6 DEF LineInv, Twice, Line
<1>9. (\A e \in edges : e[1] \in expanded /\ e[2] \notin seen =>
         ~end /\ e[1] = Head(inner_component))'
  BY <1>1 DEF IInv
<1>10. QED
  BY <1>7, <1>8, <1>9 DEF IInv

\* The loop body keeps it: it changes no edge of a node that was left.
LEMMA RewriteInv == IInv /\ Rewrite => IInv'
<1> SUFFICES ASSUME IInv, Rewrite PROVE IInv'
  OBVIOUS
<1> DEFINE n == Head(inner_component)
<1>1. /\ UNCHANGED <<starts, seen, inner_component, components, end, passed, expanded>>
      /\ rewrites < MaxRewrites /\ rewrites' = rewrites + 1 /\ ~end
  BY DEF Rewrite
<1>2. PICK new \in SUBSET {e \in MayEdge : e[1] = n \/ Fresh(e[1])} : edges' = {e \in edges : e[1] # n} \cup new
  BY DEF Rewrite
<1>3. edges' \subseteq Node \X Node
  BY <1>2, MayEdgeAssumption DEF IInv, TypeOK
<1>4. TypeOK'
  BY <1>1, <1>3, MaxRewritesAssumption DEF IInv, TypeOK
<1>5. LineInv(Line, components, seen)'
  BY <1>1 DEF IInv, LineInv, Twice, Line
<1>6. \A m : Fresh(m) => m \notin expanded
  <2>1. Range(passed) \subseteq Range(Line)
    <3>1. passed \in Seq(Node) /\ inner_component \in Seq(Node)
      BY DEF IInv, TypeOK
    <3>2. Range(passed \o inner_component) = Range(passed) \cup Range(inner_component)
      BY <3>1, Ranges
    <3>3. QED
      BY <3>2 DEF Line
  <2>2. QED
    BY <2>1 DEF IInv, TypeOK, LineInv, Fresh
<1>7. (\A e \in edges : e[1] \in expanded /\ e[2] \notin seen =>
         ~end /\ e[1] = Head(inner_component))'
  BY <1>1, <1>2, <1>6 DEF IInv
<1>8. QED
  BY <1>4, <1>5, <1>7 DEF IInv

\* Every step keeps the invariant ...
LEMMA NextInv == IInv /\ [Next]_vars => IInv'
<1>1. IInv /\ UNCHANGED vars => IInv'
  BY DEF IInv, TypeOK, LineInv, Twice, Line, vars
<1>2. QED
  BY <1>1, AdvanceInv, SkipInv, RewriteInv DEF Next

\* ... so that it holds in every state.
LEMMA InvInv == Spec => []IInv
BY InitInv, NextInv, PTL DEF Spec

\* The containers of the iterator hold nodes, and it is at its end exactly when
\* they are empty (bfs_iterator::check_next_component).
THEOREM IteratorTyped == Spec => []TypeOK
<1>1. IInv => TypeOK
  BY DEF IInv
<1>2. QED
  BY <1>1, InvInv, PTL

\* A loop over the nodes misses neither a start node nor a neighbour of a node it
\* was at, whatever edges it gives the nodes on the way.
THEOREM LoopComplete == Spec => []Complete
<1>1. IInv => Complete
  <2>1. ASSUME IInv, end PROVE Range(Line) = Range(passed) /\ Range(components) = {}
    <3>1. inner_component = <<>> /\ components = <<>> /\ passed \in Seq(Node)
      BY <2>1 DEF IInv, TypeOK
    <3>2. passed \o <<>> = passed
      BY <3>1
    <3>3. QED
      BY <3>1, <3>2 DEF Line, Range
  <2>2. QED
    BY <2>1 DEF IInv, LineInv, Complete
<1>2. QED
  BY <1>1, InvInv, PTL

\* No node is delivered three times, and only a start node is delivered twice.
THEOREM DeliveredAtMostTwice == Spec => []AtMostTwice
<1>1. IInv => AtMostTwice
  <2>1. ASSUME IInv PROVE AtMostTwice
    <3>1. passed \in Seq(Node) /\ inner_component \in Seq(Node)
      BY <2>1 DEF IInv, TypeOK
    <3>2. \A i \in DOMAIN passed : i \in DOMAIN Line /\ Line[i] = passed[i]
      BY <3>1 DEF Line
    <3>3. QED
      BY <2>1, <3>2 DEF IInv, LineInv, Twice, AtMostTwice
  <2>2. QED
    BY <2>1
<1>2. QED
  BY <1>1, InvInv, PTL

-----------------------------------------------------------------------------
(* The order of the nodes in a search from one node *)

\* A set of numbers that has 0 and each successor has every number.
LEMMA AllNumbers ==
  ASSUME NEW S, 0 \in S, \A k \in Nat : k \in S => k + 1 \in S
  PROVE  Nat \subseteq S
<1> DEFINE T == Nat \ S
<1>1. SUFFICES ASSUME T # {} PROVE FALSE
  OBVIOUS
<1>2. PICK m \in T : \A n \in T : ~(<<n, m>> \in OpToRel(<, Nat))
  <2>1. T \subseteq Nat
    OBVIOUS
  <2> HIDE DEF T
  <2>2. QED
    BY <1>1, <2>1, NatLessThanWellFounded, WFMin, Zenon
<1>3. m \in Nat /\ m # 0
  BY <1>2
<1>4. m - 1 \in Nat /\ m - 1 < m /\ (m - 1) + 1 = m
  BY <1>3
<1>5. m - 1 \notin T
  BY <1>2, <1>3, <1>4, Zenon DEF OpToRel
<1>6. m \in S
  <2>1. m - 1 \in S
    BY <1>4, <1>5
  <2>2. QED
    BY <1>4, <2>1
<1>7. QED
  BY <1>6

\* Within is the function its definition describes: what paths of at most k edges
\* reach satisfies the equation.
LEMMA WithinStep ==
  ASSUME starts \subseteq Node
  PROVE  /\ Within[0] = starts
         /\ \A k \in Nat : Within[k + 1] =
              Within[k] \cup {m \in Node : \E n \in Within[k] : <<n, m>> \in edges}
<1> DEFINE F(f) == [k \in Nat |-> IF k = 0 THEN starts
                      ELSE f[k - 1] \cup {m \in Node : \E n \in f[k - 1] : <<n, m>> \in edges}]
           Along(p, k) == /\ p[0] \in starts
                          /\ \A i \in 0..(k - 1) : p[i + 1] = p[i] \/ <<p[i], p[i + 1]>> \in edges
           w == [k \in Nat |-> {m \in Node : \E p \in [0..k -> Node] : Along(p, k) /\ p[k] = m}]
<1>1. w[0] = starts
  <2>1. ASSUME NEW m \in starts PROVE m \in w[0]
    <3>1. [i \in 0..0 |-> m] \in [0..0 -> Node] /\ [i \in 0..0 |-> m][0] = m
      OBVIOUS
    <3>2. Along([i \in 0..0 |-> m], 0)
      BY <3>1
    <3> HIDE DEF Along
    <3>3. QED
      BY <3>1, <3>2
  <2>2. QED
    BY <2>1
<1>2. ASSUME NEW k \in Nat
      PROVE  w[k + 1] = w[k] \cup {m \in Node : \E n \in w[k] : <<n, m>> \in edges}
  <2>1. ASSUME NEW n \in w[k], NEW m \in Node, m = n \/ <<n, m>> \in edges
        PROVE  m \in w[k + 1]
    <3>1. PICK p \in [0..k -> Node] : Along(p, k) /\ p[k] = n
      OBVIOUS
    <3> DEFINE q == [i \in 0..(k + 1) |-> IF i = k + 1 THEN m ELSE p[i]]
    <3>2. q \in [0..(k + 1) -> Node] /\ q[k + 1] = m
      OBVIOUS
    <3>3. Along(q, k + 1)
      <4>1. q[0] \in starts
        BY <3>1
      <4>2. ASSUME NEW i \in 0..k PROVE q[i + 1] = q[i] \/ <<q[i], q[i + 1]>> \in edges
        <5>1. CASE i = k
          BY <2>1, <3>1, <5>1
        <5>2. CASE i # k
          <6>1. i \in 0..(k - 1) /\ q[i] = p[i] /\ q[i + 1] = p[i + 1]
            BY <5>2
          <6>2. QED
            BY <3>1, <6>1
        <5>3. QED
          BY <5>1, <5>2
      <4>3. (k + 1) - 1 = k
        OBVIOUS
      <4> HIDE DEF q
      <4>4. QED
        BY <4>1, <4>2, <4>3
    <3> HIDE DEF q, Along
    <3>4. QED
      BY <3>2, <3>3
  <2>2. ASSUME NEW m \in w[k + 1]
        PROVE  \E n \in w[k] : m = n \/ <<n, m>> \in edges
    <3>1. PICK p \in [0..(k + 1) -> Node] : Along(p, k + 1) /\ p[k + 1] = m
      OBVIOUS
    <3> DEFINE q == [i \in 0..k |-> p[i]]
    <3>2. q \in [0..k -> Node] /\ q[k] \in Node /\ q[k] = p[k]
      OBVIOUS
    <3>3. Along(q, k)
      BY <3>1
    <3>4. m = p[k] \/ <<p[k], m>> \in edges
      BY <3>1
    <3> HIDE DEF q, Along
    <3>5. QED
      BY <3>2, <3>3, <3>4
  <2>3. w[k] \subseteq Node /\ w[k + 1] \subseteq Node
    OBVIOUS
  <2> HIDE DEF w
  <2>4. QED
    BY <2>1, <2>2, <2>3
<1>3. w = F(w)
  <2>1. ASSUME NEW k \in Nat PROVE w[k] = F(w)[k]
    <3> HIDE DEF w
    <3>1. CASE k = 0
      BY <1>1, <3>1
    <3>2. CASE k # 0
      <4>1. k - 1 \in Nat /\ (k - 1) + 1 = k
        BY <3>2
      <4>2. w[(k - 1) + 1] = w[k - 1] \cup {m \in Node : \E n \in w[k - 1] : <<n, m>> \in edges}
        BY <1>2, <4>1
      <4>3. QED
        BY <3>2, <4>1, <4>2
    <3>3. QED
      BY <3>1, <3>2
  <2>2. w = [k \in Nat |-> w[k]]
    OBVIOUS
  <2> HIDE DEF w
  <2>3. F(w) = [k \in Nat |-> F(w)[k]]
    OBVIOUS
  <2> HIDE DEF F
  <2>4. QED
    BY <2>1, <2>2, <2>3
<1>4. Within = CHOOSE f : f = F(f)
  BY DEF Within
<1>5. Within = F(Within)
  <2> HIDE DEF F, w
  <2>1. \E f : f = F(f)
    BY <1>3
  <2>2. QED
    BY <1>4, <2>1, Zenon
<1>6. QED
  <2> HIDE DEF w
  <2>1. Within[0] = F(Within)[0] /\ \A k \in Nat : Within[k + 1] = F(Within)[k + 1]
    BY <1>5
  <2>2. F(Within)[0] = starts
    OBVIOUS
  <2>3. ASSUME NEW k \in Nat
        PROVE  F(Within)[k + 1] = Within[k] \cup {m \in Node : \E n \in Within[k] : <<n, m>> \in edges}
    <3>1. k + 1 \in Nat /\ k + 1 # 0 /\ (k + 1) - 1 = k
      OBVIOUS
    <3>2. F(Within)[k + 1] = Within[(k + 1) - 1] \cup
            {m \in Node : \E n \in Within[(k + 1) - 1] : <<n, m>> \in edges}
      BY <3>1, Zenon
    <3>3. QED
      BY <3>1, <3>2, Zenon
  <2> HIDE DEF F
  <2>4. QED
    BY <2>1, <2>2, <2>3

\* What holds of the search from one node: it is the first of the line and alone in
\* it at first, what follows is seen, and a node that was skipped does not come
\* again.
One ==
  Cardinality(starts) = 1 =>
    /\ components = <<>>
    /\ Line # <<>> /\ starts = {Line[1]}
    /\ passed = <<>> => Len(inner_component) = 1
    /\ \A j \in 2..Len(Line) : Line[j] \in seen
    /\ \A n \in Range(passed) \ expanded : n \notin Range(inner_component) /\ (end \/ n \in seen)

\* Without rewrites all neighbours of a node left by ++ are seen.
Kept == rewrites = 0 => \A e \in edges : e[1] \in expanded => e[2] \in seen

\* All nodes but the first were enqueued for a node before them that was delivered.
Preceded(line, p) == \A j \in 2..Len(line) : \E i \in 1..p : i < j /\ <<line[i], line[j]>> \in edges

\* A neighbour of a delivered node comes after the neighbours of those before it.
InTurn(line, p) ==
  \A j, k \in 2..Len(line) : \A i \in 1..p :
    j < k /\ <<line[i], line[k]>> \in edges => \E h \in 1..i : <<line[h], line[j]>> \in edges

Undisturbed == Cardinality(starts) = 1 /\ Range(passed) = expanded /\ rewrites = 0

Order == Undisturbed => Preceded(Line, Len(passed)) /\ InTurn(Line, Len(passed))

BreadthInv == One /\ Kept /\ Order

\* Where neighbours come in turn, what is within k edges is delivered first.
LEMMA Levels ==
  ASSUME NEW line \in Seq(Node), NEW p \in 0..Len(line), line # <<>>,
         starts = {line[1]}, starts \subseteq Node, edges \subseteq Node \X Node,
         InTurn(line, p),
         \A i \in 1..p : \A m \in Node : <<line[i], m>> \in edges => m \in Range(line)
  PROVE  \A k \in Nat : \A i, j \in 1..p :
           i < j /\ line[j] \in Within[k] \ starts => line[i] \in Within[k]
<1> DEFINE A(k) == \A i, j \in 1..p : i < j /\ line[j] \in Within[k] \ starts => line[i] \in Within[k]
           B(k) == \A j \in 1..p : line[j] \notin Within[k] =>
                     \A m \in Within[k] : \E r \in 1..p : r < j /\ line[r] = m
           S == {k \in Nat : A(k) /\ B(k) /\ line[1] \in Within[k]}
<1>1. DOMAIN line = 1..Len(line) /\ Len(line) \in Nat /\ p \in Nat /\ p <= Len(line)
  OBVIOUS
<1>2. \A i \in 1..p : i \in 1..Len(line) /\ line[i] \in Node
  BY <1>1
<1>3. Within[0] = starts
  BY WithinStep
<1>4. 0 \in S
  <2>1. A(0)
    BY <1>3
  <2>2. B(0)
    <3>1. ASSUME NEW j \in 1..p, line[j] \notin starts PROVE 1 \in 1..p /\ 1 < j
      <4>1. j # 1
        BY <3>1
      <4>2. QED
        BY <1>1, <4>1
    <3>2. QED
      BY <1>3, <3>1
  <2>3. line[1] \in Within[0]
    BY <1>3
  <2> HIDE DEF A, B
  <2>4. QED
    BY <2>1, <2>2, <2>3
<1>5. ASSUME NEW k \in Nat, k \in S PROVE k + 1 \in S
  <2> DEFINE W == Within[k]
             V == Within[k + 1]
  <2>1. V = W \cup {m \in Node : \E n \in W : <<n, m>> \in edges}
    BY WithinStep
  <2>2. A(k) /\ B(k) /\ line[1] \in W
    <3> HIDE DEF A, B
    <3> QED BY <1>5
  <2> HIDE DEF W, V
  \* a node before line[j], reached from within k edges
  <2>3. ASSUME NEW j \in 1..p, line[j] \notin W, NEW n \in W
        PROVE  \E r \in 1..p : r < j /\ line[r] = n /\ \A h \in 1..r : line[h] \in W
    <3>1. CASE n = line[1]
      <4>1. j # 1
        BY <2>2, <2>3
      <4>2. 1 \in 1..p /\ 1 < j /\ \A h \in 1..1 : h = 1
        BY <1>1, <4>1
      <4>3. QED
        BY <2>2, <3>1, <4>2
    <3>2. CASE n # line[1]
      <4>1. PICK r \in 1..p : r < j /\ line[r] = n
        BY <2>2, <2>3 DEF W
      <4>2. line[r] \in W \ starts
        BY <3>2, <4>1
      <4>3. ASSUME NEW h \in 1..r PROVE line[h] \in W
        <5>1. h = r \/ (h \in 1..p /\ h < r)
          BY <1>1
        <5>2. QED
          BY <2>2, <4>2, <5>1 DEF W
      <4>4. QED
        BY <4>1, <4>3
    <3>3. QED
      BY <3>1, <3>2
  \* the nodes before one within k + 1 edges are so, too
  <2>4. ASSUME NEW j \in 1..p, line[j] \notin W, NEW s \in 2..Len(line), j < s,
               NEW n \in W, <<n, line[s]>> \in edges
        PROVE  line[j] \in V
    <3>1. PICK r \in 1..p : r < j /\ line[r] = n /\ \A h \in 1..r : line[h] \in W
      BY <2>3, <2>4
    <3>2. j \in 2..Len(line)
      BY <1>1, <3>1
    <3>3. PICK h \in 1..r : <<line[h], line[j]>> \in edges
      BY <2>4, <3>1, <3>2 DEF InTurn
    <3>4. QED
      BY <1>2, <2>1, <3>1, <3>3
  <2>5. A(k + 1)
    <3>1. SUFFICES ASSUME NEW i \in 1..p, NEW j \in 1..p, i < j, line[j] \in V \ starts
                   PROVE  line[i] \in V
      BY DEF V
    <3>2. CASE line[i] \in W
      BY <2>1, <3>2
    <3>3. CASE line[i] \notin W
      <4>1. line[j] \notin W
        BY <2>2, <3>1, <3>3 DEF W
      <4>2. PICK n \in W : <<n, line[j]>> \in edges
        BY <2>1, <3>1, <4>1
      <4>3. j \in 2..Len(line)
        BY <1>1, <3>1
      <4>4. QED
        BY <2>4, <3>1, <3>3, <4>2, <4>3
    <3>4. QED
      BY <3>2, <3>3
  <2>6. B(k + 1)
    <3>1. SUFFICES ASSUME NEW j \in 1..p, line[j] \notin V, NEW m \in V
                   PROVE  \E r \in 1..p : r < j /\ line[r] = m
      BY DEF V
    <3>2. line[j] \notin W
      BY <2>1, <3>1
    <3>3. CASE m \in W
      BY <2>3, <3>2, <3>3
    <3>4. CASE m \notin W
      <4>1. PICK n \in W : <<n, m>> \in edges /\ m \in Node
        BY <2>1, <3>1, <3>4
      <4>2. PICK r \in 1..p : r < j /\ line[r] = n
        BY <2>3, <3>2
      <4>3. PICK s \in 1..Len(line) : line[s] = m
        BY <1>1, <4>1, <4>2 DEF Range
      <4>4. s # 1 /\ s # j
        BY <2>2, <3>1, <3>4, <4>3
      <4>5. ~(j < s)
        <5>1. ASSUME j < s PROVE FALSE
          <6>1. s \in 2..Len(line)
            BY <4>4
          <6>2. QED
            BY <2>4, <3>1, <3>2, <4>1, <4>3, <5>1, <6>1
        <5>2. QED
          BY <5>1
      <4>6. s \in 1..p /\ s < j
        BY <1>1, <4>4, <4>5
      <4>7. QED
        BY <4>3, <4>6
    <3>5. QED
      BY <3>3, <3>4
  <2>7. line[1] \in V
    BY <2>1, <2>2
  <2> HIDE DEF A, B
  <2>8. QED
    BY <2>5, <2>6, <2>7 DEF V
<1>6. Nat \subseteq S
  <2> HIDE DEF S
  <2> QED BY <1>4, <1>5, AllNumbers
<1>7. QED
  BY <1>6

\* The first of a set of one node is all of it.
LEMMA Single ==
  ASSUME NEW S \in SUBSET Node, Cardinality(S) = 1, NEW cs \in Ascending(S)
  PROVE  cs # <<>> /\ S = {Head(cs)} /\ Tail(cs) = <<>>
<1>1. cs \in [1..1 -> S] /\ Range(cs) = S /\ cs \in Seq(Node)
  BY AscendingSeq DEF Ascending
<1>2. Len(cs) = 1 /\ cs # <<>> /\ Head(cs) = cs[1]
  BY <1>1
<1>3. Range(cs) = {cs[1]}
  BY <1>1 DEF Range
<1>4. Tail(cs) = <<>>
  <2>1. Tail(cs) \in Seq(Node) /\ Len(Tail(cs)) = 0
    BY <1>1, <1>2
  <2> HIDE DEF Ascending
  <2>2. \A t \in Seq(Node) : Len(t) = 0 => t = <<>>
    OBVIOUS
  <2>3. QED
    BY <2>1, <2>2
<1>5. QED
  BY <1>1, <1>2, <1>3, <1>4

\* The search from one node: the queue is all there is.
LEMMA LastComponent ==
  ASSUME NEW q \in Seq(Node), NEW sn, CheckNextComponent(q, <<>>, sn)
  PROVE  inner_component' = q /\ components' = <<>> /\ (end' <=> q = <<>>)
<1>1. DOMAIN <<>> = {}
  OBVIOUS
<1>2. QED
  BY <1>1 DEF CheckNextComponent

\* Where the line is what was delivered and where it is what is enqueued.
LEMMA LineParts ==
  ASSUME TypeOK
  PROVE  /\ Line \in Seq(Node) /\ Len(passed) \in 0..Len(Line)
         /\ Len(Line) = Len(passed) + Len(inner_component)
         /\ \A i \in 1..Len(passed) : i \in DOMAIN Line /\ Line[i] = passed[i] /\ Line[i] \in Range(passed)
         /\ \A i \in 1..Len(inner_component) : Line[Len(passed) + i] = inner_component[i]
         /\ Range(passed) \subseteq Range(Line)
         /\ ~end => /\ Len(passed) + 1 \in 1..Len(Line) /\ Line[Len(passed) + 1] = Head(inner_component)
                    /\ Len(Append(passed, Head(inner_component))) = Len(passed) + 1
<1>1. passed \in Seq(Node) /\ inner_component \in Seq(Node) /\ (~end => inner_component # <<>>)
  BY DEF TypeOK
<1>2. /\ Line \in Seq(Node) /\ Len(passed) \in 0..Len(Line)
      /\ Len(Line) = Len(passed) + Len(inner_component)
      /\ \A i \in 1..Len(passed) : i \in DOMAIN Line /\ Line[i] = passed[i]
      /\ \A i \in 1..Len(inner_component) : Line[Len(passed) + i] = inner_component[i]
  BY <1>1 DEF Line
<1>3. \A i \in 1..Len(passed) : passed[i] \in Range(passed)
  BY <1>1 DEF Range
<1>4. Range(passed) \subseteq Range(Line)
  <2>1. Range(passed \o inner_component) = Range(passed) \cup Range(inner_component)
    BY <1>1, Ranges
  <2>2. QED
    BY <2>1 DEF Line
<1>5. ~end => /\ Len(passed) + 1 \in 1..Len(Line) /\ Line[Len(passed) + 1] = Head(inner_component)
              /\ Len(Append(passed, Head(inner_component))) = Len(passed) + 1
  <2>1. ASSUME ~end PROVE Len(inner_component) \in Nat \ {0} /\ Head(inner_component) = inner_component[1]
    BY <1>1, <2>1
  <2>2. ASSUME ~end PROVE Len(Append(passed, Head(inner_component))) = Len(passed) + 1
    BY <1>1, <2>2
  <2>3. QED
    BY <1>2, <2>1, <2>2
<1>6. QED
  BY <1>2, <1>3, <1>4, <1>5

\* Range of a sequence that is not empty.
LEMMA InRange ==
  ASSUME NEW s \in Seq(Node), NEW n \in Range(s)
  PROVE  \E i \in 1..Len(s) : s[i] = n
BY DEF Range

\* operator++ with one start node: the line grows by the neighbours not seen.
LEMMA AdvanceLine ==
  ASSUME IInv, One, Cardinality(starts) = 1, Advance
  PROVE  \E to \in Seq(Node) :
           /\ Range(to) = Targets(Head(inner_component))
           /\ inner_component' = Tail(inner_component) \o to /\ components' = <<>>
           /\ end' <=> inner_component' = <<>>
           /\ Line' = Line \o to
<1> DEFINE n == Head(inner_component)
           found == Targets(n)
<1>1. PICK to \in Ascending(found) : CheckNextComponent(Enqueued(to), components, seen \cup found)
  BY DEF Advance
<1>2. passed' = Append(passed, n) /\ ~end /\ components = <<>>
  BY DEF Advance, One
<1>3. /\ passed \in Seq(Node) /\ inner_component \in Seq(Node) /\ inner_component # <<>>
  BY <1>2 DEF IInv, TypeOK
<1>4. to \in Seq(Node) /\ Range(to) = found
  <2>1. found \in SUBSET Node
    BY DEF Targets
  <2> HIDE DEF found
  <2>2. QED
    BY <1>1, <2>1, AscendingSeq
<1>5. /\ Tail(inner_component) \in Seq(Node) /\ Tail(inner_component) \o to \in Seq(Node)
      /\ n \in Node /\ Append(passed, n) \in Seq(Node)
      /\ Append(passed, n) \o Tail(inner_component) = Line
  BY <1>3, <1>4, Ranges DEF Line
<1>6. inner_component' = Tail(inner_component) \o to /\ components' = <<>> /\ (end' <=> inner_component' = <<>>)
  <2> HIDE DEF found
  <2> QED BY <1>1, <1>2, <1>5, LastComponent DEF Enqueued
<1>7. Line' = Line \o to
  <2>1. Append(passed, n) \o (Tail(inner_component) \o to) = (Append(passed, n) \o Tail(inner_component)) \o to
    BY <1>4, <1>5
  <2>2. QED
    BY <1>2, <1>5, <1>6, <2>1 DEF Line
<1>8. QED
  BY <1>4, <1>6, <1>7

\* skip with one start node: the line stays.
LEMMA SkipLine ==
  ASSUME IInv, One, Cardinality(starts) = 1, Skip
  PROVE  /\ inner_component' = Tail(inner_component) /\ components' = <<>>
         /\ end' <=> inner_component' = <<>>
         /\ Line' = Line
<1>1. /\ CheckNextComponent(Tail(inner_component), components, seen)
      /\ passed' = Append(passed, Head(inner_component)) /\ ~end /\ components = <<>>
  BY DEF Skip, One
<1>2. passed \in Seq(Node) /\ inner_component \in Seq(Node) /\ inner_component # <<>>
  BY <1>1 DEF IInv, TypeOK
<1>3. Tail(inner_component) \in Seq(Node) /\ passed' \o Tail(inner_component) = Line
  BY <1>1, <1>2, Ranges DEF Line
<1>4. QED
  BY <1>1, <1>3, LastComponent DEF Line

\* A line in which the neighbours come in turn grows by those of its next node.
LEMMA GrowLine ==
  ASSUME NEW line \in Seq(Node), NEW to \in Seq(Node), NEW p \in Nat, p + 1 \in 1..Len(line),
         Preceded(line, p), InTurn(line, p),
         \A i \in 1..p : \A m \in Range(to) : <<line[i], m>> \notin edges,
         \A m \in Range(to) : <<line[p + 1], m>> \in edges
  PROVE  Preceded(line \o to, p + 1) /\ InTurn(line \o to, p + 1)
<1> DEFINE new == line \o to
<1>1. /\ Len(line) \in Nat /\ Len(to) \in Nat /\ Len(new) = Len(line) + Len(to)
      /\ \A j \in 1..Len(line) : new[j] = line[j]
  OBVIOUS
<1>2. \A j \in 1..Len(new) : j \notin 1..Len(line) => new[j] \in Range(to)
  <2>1. ASSUME NEW j \in 1..Len(new), j \notin 1..Len(line) PROVE new[j] \in Range(to)
    <3>1. j - Len(line) \in 1..Len(to) /\ new[j] = to[j - Len(line)]
      BY <2>1
    <3>2. QED
      BY <3>1 DEF Range
  <2>2. QED
    BY <2>1
<1> HIDE DEF new
<1>3. ASSUME NEW j \in 2..Len(new)
      PROVE  \E i \in 1..(p + 1) : i < j /\ <<new[i], new[j]>> \in edges
  <2>1. CASE j \in 1..Len(line)
    <3>1. PICK i \in 1..p : i < j /\ <<line[i], line[j]>> \in edges
      BY <2>1 DEF Preceded
    <3>2. i \in 1..(p + 1) /\ new[i] = line[i] /\ new[j] = line[j]
      BY <1>1, <2>1, <3>1
    <3>3. QED
      BY <3>1, <3>2
  <2>2. CASE j \notin 1..Len(line)
    <3>1. new[j] \in Range(to) /\ new[p + 1] = line[p + 1] /\ p + 1 < j /\ p + 1 \in 1..(p + 1)
      BY <1>1, <1>2, <2>2
    <3>2. QED
      BY <3>1
  <2>3. QED
    BY <2>1, <2>2
<1>4. ASSUME NEW j \in 2..Len(new), NEW k \in 2..Len(new), NEW i \in 1..(p + 1),
             j < k, <<new[i], new[k]>> \in edges
      PROVE  \E h \in 1..i : <<new[h], new[j]>> \in edges
  <2>1. new[i] = line[i] /\ i \in 1..Len(line)
    BY <1>1
  <2>2. CASE i = p + 1
    <3>1. \E h \in 1..(p + 1) : h < j /\ <<new[h], new[j]>> \in edges
      BY <1>3
    <3>2. QED
      BY <2>2, <3>1
  <2>3. CASE i # p + 1
    <3>1. i \in 1..p
      BY <2>3
    <3>2. k \in 1..Len(line)
      <4>1. CASE k \notin 1..Len(line)
        <5>1. new[k] \in Range(to)
          BY <1>2, <4>1
        <5>2. QED
          BY <1>4, <2>1, <3>1, <5>1
      <4>2. QED
        BY <4>1
    <3>3. new[k] = line[k] /\ new[j] = line[j] /\ k \in 2..Len(line) /\ j \in 2..Len(line)
      BY <1>1, <1>4, <3>2
    <3>4. PICK h \in 1..i : <<line[h], line[j]>> \in edges
      BY <1>4, <2>1, <3>1, <3>3 DEF InTurn
    <3>5. new[h] = line[h]
      BY <1>1, <2>1, <3>4
    <3>6. QED
      BY <3>3, <3>4, <3>5
  <2>4. QED
    BY <2>2, <2>3
<1>5. QED
  BY <1>3, <1>4 DEF Preceded, InTurn, new

\* The constructor: the line is the start node.
LEMMA InitBreadth == Init /\ IInv => BreadthInv
<1> SUFFICES ASSUME Init, IInv PROVE BreadthInv
  OBVIOUS
<1>1. passed = <<>> /\ seen = {} /\ expanded = {} /\ starts \in SUBSET Node
  BY DEF Init, IInv, TypeOK
<1>2. Range(passed) = {}
  BY <1>1 DEF Range
<1>3. Kept
  BY <1>1 DEF Kept
<1>4. ASSUME Cardinality(starts) = 1
      PROVE  /\ components = <<>> /\ Line # <<>> /\ starts = {Line[1]}
             /\ Len(inner_component) = 1 /\ Len(Line) = 1
  <2>1. starts # {}
    BY <1>4, FS_EmptySet
  <2>2. PICK cs \in Ascending(starts) : inner_component = <<Head(cs)>> /\ components = Tail(cs)
    BY <2>1 DEF Init
  <2>3. starts = {Head(cs)} /\ components = <<>>
    BY <1>1, <1>4, <2>2, Single
  <2> DEFINE h == Head(cs)
  <2>4. inner_component = <<h>> /\ starts = {h} /\ h \in Node
    BY <1>1, <2>2, <2>3
  <2> HIDE DEF h
  <2>5. Line = <<h>>
    BY <1>1, <2>4 DEF Line
  <2>6. QED
    BY <2>3, <2>4, <2>5
<1>5. Cardinality(starts) = 1 => 2..Len(Line) = {}
  <2>1. 2..1 = {}
    OBVIOUS
  <2>2. QED
    BY <1>4, <2>1
<1>6. One
  BY <1>2, <1>4, <1>5 DEF One
<1>7. Order
  BY <1>5 DEF Order, Undisturbed, Preceded, InTurn
<1>8. QED
  BY <1>3, <1>6, <1>7 DEF BreadthInv

\* operator++ and the search from one node.
LEMMA OneAdvance == IInv /\ One /\ Advance => One'
<1> SUFFICES ASSUME IInv, One, Advance, Cardinality(starts) = 1 PROVE One'
  BY DEF One, Advance
<1> DEFINE h == Head(inner_component)
           P == Len(passed)
<1>1. PICK to \in Seq(Node) :
           /\ Range(to) = Targets(h)
           /\ inner_component' = Tail(inner_component) \o to /\ components' = <<>>
           /\ end' <=> inner_component' = <<>>
           /\ Line' = Line \o to
  BY AdvanceLine
<1>2. /\ seen' = seen \cup Targets(h) /\ passed' = Append(passed, h) /\ expanded' = expanded \cup {h}
      /\ starts' = starts /\ ~end
  BY DEF Advance
<1>3. TypeOK /\ inner_component \in Seq(Node) /\ inner_component # <<>> /\ passed \in Seq(Node)
  BY <1>2 DEF IInv, TypeOK
<1>4. Line \in Seq(Node) /\ Line # <<>>
  BY <1>3, LineParts DEF One
<1> HIDE DEF h
<1>5. Line' # <<>> /\ starts' = {Line'[1]}
  <2>1. starts = {Line[1]}
    BY DEF One
  <2>2. Line \o to # <<>> /\ (Line \o to)[1] = Line[1]
    BY <1>4
  <2>3. QED
    BY <1>1, <1>2, <2>1, <2>2
<1>6. passed' # <<>>
  BY <1>2, <1>3
<1>7. ASSUME NEW j \in 2..Len(Line \o to) PROVE (Line \o to)[j] \in seen'
  <2>1. CASE j <= Len(Line)
    <3>1. (Line \o to)[j] = Line[j] /\ j \in 2..Len(Line)
      BY <1>4, <2>1
    <3>2. QED
      BY <1>2, <3>1 DEF One
  <2>2. CASE j > Len(Line)
    <3>1. j - Len(Line) \in DOMAIN to /\ (Line \o to)[j] = to[j - Len(Line)]
      BY <1>4, <2>2
    <3>2. (Line \o to)[j] \in Range(to)
      BY <3>1 DEF Range
    <3>3. QED
      BY <1>1, <1>2, <3>2
  <2>3. QED
    BY <1>4, <2>1, <2>2
<1>8. /\ h \in Node /\ Tail(inner_component) \in Seq(Node)
      /\ Range(inner_component) = {h} \cup Range(Tail(inner_component))
      /\ Range(passed') = Range(passed) \cup {h}
  BY <1>2, <1>3, Ranges DEF h
<1>9. Range(inner_component') = Range(Tail(inner_component)) \cup Targets(h)
  <2> DEFINE rest == Tail(inner_component)
  <2>1. rest \in Seq(Node) /\ inner_component' = rest \o to
    BY <1>1, <1>8
  <2> HIDE DEF rest
  <2>2. Range(rest \o to) = Range(rest) \cup Range(to)
    BY <2>1, Ranges
  <2>3. QED
    BY <1>1, <2>1, <2>2 DEF rest
<1>10. ASSUME NEW n \in Range(passed') \ expanded'
       PROVE  n \notin Range(inner_component') /\ n \in seen'
  <2>1. n \in Range(passed) \ expanded
    BY <1>2, <1>8
  <2>2. n \notin Range(inner_component) /\ n \in seen
    BY <1>2, <2>1 DEF One
  <2>3. n \notin Targets(h)
    BY <2>2 DEF Targets
  <2>4. QED
    BY <1>2, <1>8, <1>9, <2>2, <2>3
<1>11. QED
  BY <1>1, <1>5, <1>6, <1>7, <1>10 DEF One

\* skip and the search from one node: the node that was left does not come again.
LEMMA OneSkip == IInv /\ One /\ Skip => One'
<1> SUFFICES ASSUME IInv, One, Skip, Cardinality(starts) = 1 PROVE One'
  BY DEF One, Skip
<1> DEFINE h == Head(inner_component)
           P == Len(passed)
<1>1. /\ inner_component' = Tail(inner_component) /\ components' = <<>>
      /\ end' <=> inner_component' = <<>>
      /\ Line' = Line
  BY SkipLine
<1>2. /\ seen' = seen /\ passed' = Append(passed, h) /\ expanded' = expanded \ {h}
      /\ starts' = starts /\ ~end
  BY DEF Skip
<1>3. TypeOK /\ inner_component \in Seq(Node) /\ inner_component # <<>> /\ passed \in Seq(Node)
  BY <1>2 DEF IInv, TypeOK
<1>4. /\ Line \in Seq(Node) /\ P \in Nat /\ P + 1 \in 1..Len(Line) /\ Line[P + 1] = h
      /\ Len(Line) = P + Len(inner_component)
      /\ \A i \in 1..Len(inner_component) : Line[P + i] = inner_component[i]
  BY <1>2, <1>3, LineParts
<1>5. \A i \in 1..Len(Tail(inner_component)) :
        i + 1 \in 1..Len(inner_component) /\ Tail(inner_component)[i] = inner_component[i + 1]
  BY <1>3
<1>6. /\ h \in Node /\ Tail(inner_component) \in Seq(Node)
      /\ Range(inner_component) = {h} \cup Range(Tail(inner_component))
      /\ Range(passed') = Range(passed) \cup {h}
  BY <1>2, <1>3, Ranges
<1> HIDE DEF h
<1>7. passed' # <<>>
  BY <1>2, <1>3
<1>8. h \notin Range(inner_component') /\ (end' \/ h \in seen')
  <2>1. CASE passed = <<>>
    <3>1. Len(Tail(inner_component)) = 0
      BY <1>3, <2>1 DEF One
    <3>2. Range(Tail(inner_component)) = {}
      BY <1>5, <1>6, <3>1 DEF Range
    <3>3. Tail(inner_component) = <<>>
      <4>1. \A t \in Seq(Node) : Len(t) = 0 => t = <<>>
        OBVIOUS
      <4>2. QED
        BY <1>6, <3>1, <4>1
    <3>4. QED
      BY <1>1, <3>2, <3>3
  <2>2. CASE passed # <<>>
    <3>1. P # 0
      BY <1>3, <2>2
    <3>2. P + 1 \in 2..Len(Line)
      BY <1>4, <3>1
    <3>3. h \in seen
      BY <1>4, <3>2 DEF One
    <3>4. ASSUME h \in Range(Tail(inner_component)) PROVE FALSE
      <4>1. PICK i \in 1..Len(Tail(inner_component)) : Tail(inner_component)[i] = h
        BY <1>6, <3>4, InRange
      <4>2. /\ P + (i + 1) \in 1..Len(Line) /\ P + 1 < P + (i + 1) /\ Line[P + (i + 1)] = h
        BY <1>4, <1>5, <4>1
      <4>3. DOMAIN Line = 1..Len(Line)
        BY <1>4
      <4>4. h \in starts /\ \A k \in DOMAIN Line : Line[k] = h => k \in {P + 1, P + (i + 1)}
        BY <1>4, <4>2, <4>3 DEF IInv, LineInv, Twice
      <4>5. Line[1] = h /\ 1 \in DOMAIN Line
        BY <1>4, <4>3, <4>4 DEF One
      <4>6. 1 # P + 1 /\ 1 # P + (i + 1)
        <5>1. Len(Tail(inner_component)) \in Nat
          BY <1>6
        <5> HIDE DEF P
        <5>2. QED
          BY <1>4, <3>1, <5>1
      <4>7. QED
        BY <4>4, <4>5, <4>6
    <3>5. QED
      BY <1>1, <1>2, <3>3, <3>4
  <2>3. QED
    BY <2>1, <2>2
<1>9. ASSUME NEW n \in Range(passed') \ expanded'
      PROVE  n \notin Range(inner_component') /\ (end' \/ n \in seen')
  <2>1. CASE n = h
    BY <1>8, <2>1
  <2>2. CASE n # h
    <3>1. n \in Range(passed) \ expanded
      BY <1>2, <1>6, <2>2
    <3>2. n \notin Range(inner_component) /\ n \in seen
      BY <1>2, <3>1 DEF One
    <3>3. QED
      BY <1>1, <1>2, <1>6, <3>2
  <2>3. QED
    BY <2>1, <2>2
<1>10. QED
  BY <1>1, <1>2, <1>7, <1>9 DEF One

\* operator++ enqueues the neighbours in turn.
LEMMA OrderAdvance == IInv /\ One /\ Kept /\ Order /\ Advance => Order'
<1> SUFFICES ASSUME IInv, One, Kept, Order, Advance, Undisturbed'
             PROVE  (Preceded(Line, Len(passed)) /\ InTurn(Line, Len(passed)))'
  BY DEF Order
<1> DEFINE h == Head(inner_component)
           P == Len(passed)
<1>1. /\ seen' = seen \cup Targets(h) /\ passed' = Append(passed, h) /\ expanded' = expanded \cup {h}
      /\ starts' = starts /\ edges' = edges /\ rewrites' = rewrites /\ ~end
  BY DEF Advance
<1>2. TypeOK /\ inner_component \in Seq(Node) /\ inner_component # <<>> /\ passed \in Seq(Node)
  BY <1>1 DEF IInv, TypeOK
<1>3. Cardinality(starts) = 1 /\ rewrites = 0 /\ Range(passed') = expanded'
  BY <1>1 DEF Undisturbed
<1>4. PICK to \in Seq(Node) : Range(to) = Targets(h) /\ Line' = Line \o to
  BY <1>3, AdvanceLine
<1>5. /\ Line \in Seq(Node) /\ P \in Nat /\ P + 1 \in 1..Len(Line) /\ Line[P + 1] = h
      /\ \A i \in 1..P : Line[i] \in Range(passed)
      /\ Len(passed') = P + 1
  BY <1>1, <1>2, LineParts
<1>6. h \in Range(inner_component) /\ Range(passed') = Range(passed) \cup {h}
  BY <1>1, <1>2, Ranges
<1>7. Range(passed) = expanded
  <2>1. ASSUME NEW n \in Range(passed) \ expanded PROVE FALSE
    BY <1>1, <1>3, <1>6, <2>1 DEF One
  <2>2. QED
    BY <1>2, <2>1 DEF TypeOK
<1>8. Preceded(Line, P) /\ InTurn(Line, P)
  BY <1>3, <1>7 DEF Order, Undisturbed
<1>9. ASSUME NEW i \in 1..P, NEW m \in Range(to) PROVE <<Line[i], m>> \notin edges
  <2>1. m \notin seen
    BY <1>4 DEF Targets
  <2>2. Line[i] \in expanded
    BY <1>5, <1>7
  <2>3. QED
    BY <1>3, <2>1, <2>2 DEF Kept
<1>10. \A m \in Range(to) : <<Line[P + 1], m>> \in edges
  BY <1>4, <1>5 DEF Targets
<1> HIDE DEF h, P
<1>11. Preceded(Line \o to, P + 1) /\ InTurn(Line \o to, P + 1)
  BY <1>5, <1>8, <1>9, <1>10, GrowLine
<1>12. QED
  BY <1>1, <1>4, <1>5, <1>11 DEF Preceded, InTurn

\* Every step keeps the order.
LEMMA NextBreadth == IInv /\ BreadthInv /\ [Next]_vars => BreadthInv'
<1> SUFFICES ASSUME IInv, One, Kept, Order, [Next]_vars PROVE BreadthInv'
  BY DEF BreadthInv
<1>1. CASE Advance
  <2>1. Kept'
    <3>1. ASSUME rewrites' = 0, NEW e \in edges, e[1] \in expanded \cup {Head(inner_component)}
          PROVE  e[2] \in seen \cup Targets(Head(inner_component))
      <4>1. CASE e[1] \in expanded
        BY <1>1, <3>1, <4>1 DEF Kept, Advance
      <4>2. CASE e[1] = Head(inner_component)
        <5>1. e = <<Head(inner_component), e[2]>> /\ e[2] \in Node
          BY <4>2 DEF IInv, TypeOK
        <5>2. QED
          BY <5>1 DEF Targets
      <4>3. QED
        BY <3>1, <4>1, <4>2
    <3>2. QED
      BY <1>1, <3>1 DEF Kept, Advance
  <2>2. QED
    BY <1>1, <2>1, OneAdvance, OrderAdvance DEF BreadthInv
<1>2. CASE Skip
  <2>1. Kept'
    BY <1>2 DEF Kept, Skip
  <2>2. Head(inner_component) \in Range(passed') \ expanded'
    <3>1. passed \in Seq(Node) /\ inner_component \in Seq(Node) /\ inner_component # <<>>
      BY <1>2 DEF IInv, TypeOK, Skip
    <3>2. Head(inner_component) \in Node
      BY <3>1, Ranges
    <3>3. Range(Append(passed, Head(inner_component))) = Range(passed) \cup {Head(inner_component)}
      BY <3>1, <3>2, Ranges
    <3>4. QED
      BY <1>2, <3>3 DEF Skip
  <2>3. Order'
    BY <2>2 DEF Order, Undisturbed
  <2>4. QED
    BY <1>2, <2>1, <2>3, OneSkip DEF BreadthInv
<1>3. CASE Rewrite
  <2>1. rewrites' # 0
    BY <1>3 DEF Rewrite, IInv, TypeOK
  <2>2. One'
    BY <1>3 DEF One, Line, Rewrite
  <2>3. QED
    BY <2>1, <2>2 DEF Kept, Order, Undisturbed, BreadthInv
<1>4. CASE UNCHANGED vars
  <2>1. One'
    BY <1>4 DEF vars, One, Line
  <2>2. Kept'
    BY <1>4 DEF vars, Kept
  <2>3. Order'
    <3>1. /\ Line' = Line /\ passed' = passed /\ edges' = edges
          /\ Undisturbed' => Undisturbed
      BY <1>4 DEF vars, Undisturbed, Line
    <3>2. QED
      BY <3>1 DEF Order, Preceded, InTurn
  <2>4. QED
    BY <2>1, <2>2, <2>3 DEF BreadthInv
<1>5. QED
  BY <1>1, <1>2, <1>3, <1>4 DEF Next

\* A search from one node that neither skips nor rewrites delivers the nodes in the
\* order of their distance from it, the second delivery of the start node apart.
THEOREM BreadthFirstOrder == Spec => []BreadthFirst
<1>1. IInv /\ BreadthInv => BreadthFirst
  <2> SUFFICES ASSUME IInv, BreadthInv, Undisturbed,
                      NEW i \in DOMAIN passed, NEW j \in DOMAIN passed,
                      NEW k \in 0..Cardinality(Node), i < j, passed[j] \in Within[k] \ starts
               PROVE  passed[i] \in Within[k]
    BY DEF BreadthFirst, Undisturbed
  <2>1. TypeOK /\ starts \subseteq Node /\ edges \subseteq Node \X Node /\ passed \in Seq(Node)
    BY DEF IInv, TypeOK
  <2>2. /\ Line \in Seq(Node) /\ Len(passed) \in 0..Len(Line)
        /\ \A l \in 1..Len(passed) : Line[l] = passed[l] /\ Line[l] \in Range(passed)
    BY <2>1, LineParts
  <2>3. Line # <<>> /\ starts = {Line[1]} /\ InTurn(Line, Len(passed))
    BY DEF BreadthInv, One, Order, Undisturbed
  <2>4. ASSUME NEW l \in 1..Len(passed), NEW m \in Node, <<Line[l], m>> \in edges
        PROVE  m \in Range(Line)
    <3>1. Line[l] \in expanded
      BY <2>2 DEF Undisturbed
    <3>2. m \in seen
      BY <2>4, <3>1 DEF BreadthInv, Kept, Undisturbed
    <3>3. QED
      BY <3>2 DEF IInv, LineInv
  <2>5. k \in Nat /\ i \in 1..Len(passed) /\ j \in 1..Len(passed)
    <3>1. Cardinality(Node) \in Nat
      BY NodeAssumption, FS_CardinalityType
    <3>2. QED
      BY <2>1, <3>1
  <2>6. \A l \in Nat : \A a, b \in 1..Len(passed) :
          a < b /\ Line[b] \in Within[l] \ starts => Line[a] \in Within[l]
    BY <2>1, <2>2, <2>3, <2>4, Levels
  <2>7. QED
    BY <2>2, <2>5, <2>6
<1>2. Init => IInv /\ BreadthInv
  BY InitInv, InitBreadth
<1>3. IInv /\ BreadthInv /\ [Next]_vars => (IInv /\ BreadthInv)'
  BY NextBreadth, NextInv
<1>4. QED
  BY <1>1, <1>2, <1>3, PTL DEF Spec

-----------------------------------------------------------------------------
(* phi_inserter.  The tasks and the edges split so far are, together, the  *)
(* edges that need a phi edge.  A task comes twice, or for an edge split   *)
(* already, only if the iterator delivered its node twice, and a new node  *)
(* has exactly the two edges it was given because no number is given to    *)
(* two nodes.                                                              *)

\* The edges split so far, and those that were added.
Gone == edges \ DOMAIN graph
New == DOMAIN graph \ edges

\* The iterator delivered a node twice.
Revisited(n) == \E i, j \in DOMAIN passed : i < j /\ passed[i] = passed[j] /\ passed[i] = n

\* An edge split stands for two new ones, by way of a node no other edge is at.
GraphInv ==
  /\ \A e \in edges \ Gone : graph[e] = e
  /\ IsFiniteSet(New) /\ Cardinality(New) = 2 * Cardinality(Gone)
  /\ \A d \in New : \E a, b \in 0..(next_id - 1) : d = <<a, b>>
  /\ \A e \in Gone : \E n \in Cardinality(Node)..(next_id - 1) :
       /\ {d \in New : n \in {d[1], d[2]}} = {<<e[1], n>>, <<n, e[2]>>}
       /\ graph[<<e[1], n>>] = e /\ graph[<<n, e[2]>>] = PhiEdge

\* What is split and what is to be split, and which tasks come in vain.
TaskInv ==
  /\ pc # "update" => Gone \cup Range(tasks) = Considered \cap needs
  /\ \A a, b \in DOMAIN tasks : a < b /\ tasks[a] = tasks[b] => handed = {} /\ Revisited(tasks[a][1])
  /\ \A a \in DOMAIN tasks : tasks[a] \in Gone => handed = {} /\ Revisited(tasks[a][1])

PhaseInv ==
  /\ pc \in {"collect", "update", "transform", "thrown", "done"}
  /\ needs \subseteq edges /\ handed \subseteq edges /\ tasks \in Seq(edges)
  /\ pc \in {"collect", "update"} => Gone = {}
  /\ pc = "collect" => handed = {}
  /\ pc = "update" => tasks = <<>> /\ expanded = {}
  /\ pc = "thrown" => tasks # <<>> /\ Head(tasks) \in Gone
  /\ pc = "done" => tasks = <<>>
  /\ IF pc = "thrown" THEN next_id = Cardinality(Node) + Cardinality(Gone) + 1
     ELSE next_id = Cardinality(Node) + Cardinality(Gone)

\* The inductive invariant, beside that of the iterator.
PhiInv == PhaseInv /\ GraphInv /\ TaskInv

-----------------------------------------------------------------------------

\* A set of edges has its elements in order, each once.
LEMMA PairsSeq ==
  ASSUME NEW S \in SUBSET (Node \X Node), NEW s \in AscendingPairs(S)
  PROVE  s \in Seq(S) /\ Range(s) = S /\ \A i, j \in DOMAIN s : s[i] = s[j] => i = j
<1>1. IsFiniteSet(S) /\ Cardinality(S) \in Nat
  <2>1. IsFiniteSet(Node \X Node)
    BY NodeAssumption, FS_Product
  <2>2. QED
    BY <2>1, FS_Subset, FS_CardinalityType
<1> DEFINE N == Cardinality(S)
<1>2. s \in [1..N -> S] /\ \A i, j \in 1..N : i < j => Before(s[i], s[j])
  BY DEF AscendingPairs
<1> HIDE DEF N
<1>3. N \in Nat
  BY <1>1 DEF N
<1>4. ASSUME NEW e \in S PROVE ~Before(e, e)
  <2>1. e[1] \in Nat /\ e[2] \in Nat
    BY NodeAssumption
  <2>2. QED
    BY <2>1 DEF Before
<1>5. ASSUME NEW i \in 1..N, NEW j \in 1..N, s[i] = s[j] PROVE i = j
  <2>1. s[i] \in S /\ s[j] \in S
    BY <1>2
  <2>2. ~(i < j) /\ ~(j < i)
    BY <1>2, <1>4, <1>5, <2>1
  <2>3. QED
    BY <1>3, <2>2
<1>6. s \in Injection(1..N, S)
  BY <1>2, <1>5 DEF Injection, IsInjective
<1>7. Cardinality(1..N) = N
  BY <1>3, FS_Interval
<1>8. s \in Surjection(1..N, S)
  BY <1>1, <1>6, <1>7, FS_Injection DEF N
<1>9. Range(s) = S
  <2>1. \A e \in S : \E i \in 1..N : s[i] = e
    BY <1>8 DEF Surjection
  <2>2. QED
    BY <1>2, <2>1 DEF Range
<1>10. s \in Seq(S) /\ DOMAIN s = 1..N
  BY <1>2, <1>3
<1>11. QED
  BY <1>5, <1>9, <1>10

\* The elements of sequences put together.
LEMMA Concatenated ==
  ASSUME NEW S, NEW s \in Seq(S), NEW t \in Seq(S)
  PROVE  /\ s \o t \in Seq(S) /\ Range(s \o t) = Range(s) \cup Range(t)
         /\ \A i \in DOMAIN (s \o t) :
              \/ i \in DOMAIN s /\ (s \o t)[i] = s[i]
              \/ i \notin DOMAIN s /\ i - Len(s) \in DOMAIN t /\ (s \o t)[i] = t[i - Len(s)]
<1>1. s \o t \in Seq(S)
  OBVIOUS
<1>2. ASSUME NEW i \in DOMAIN (s \o t)
      PROVE  \/ i \in DOMAIN s /\ (s \o t)[i] = s[i]
             \/ i \notin DOMAIN s /\ i - Len(s) \in DOMAIN t /\ (s \o t)[i] = t[i - Len(s)]
  OBVIOUS
<1>3. \A i \in DOMAIN s : i \in DOMAIN (s \o t) /\ (s \o t)[i] = s[i]
  OBVIOUS
<1>4. \A i \in DOMAIN t : Len(s) + i \in DOMAIN (s \o t) /\ (s \o t)[Len(s) + i] = t[i]
  OBVIOUS
<1> DEFINE st == s \o t
<1>5. \A e \in Range(st) : e \in Range(s) \/ e \in Range(t)
  <2> HIDE DEF st
  <2> QED BY <1>2 DEF Range, st
<1>6. \A e \in Range(s) : e \in Range(st)
  <2> HIDE DEF st
  <2> QED BY <1>3 DEF Range, st
<1>7. \A e \in Range(t) : e \in Range(st)
  <2> HIDE DEF st
  <2> QED BY <1>4 DEF Range, st
<1>8. QED
  BY <1>1, <1>2, <1>5, <1>6, <1>7

\* The first element of a sequence and the others.
LEMMA TakenApart ==
  ASSUME NEW S, NEW s \in Seq(S), s # <<>>
  PROVE  /\ Head(s) \in S /\ Tail(s) \in Seq(S) /\ Range(s) = {Head(s)} \cup Range(Tail(s))
         /\ 1 \in DOMAIN s /\ s[1] = Head(s)
         /\ \A i \in DOMAIN Tail(s) : i \in Nat \ {0} /\ i + 1 \in DOMAIN s /\ Tail(s)[i] = s[i + 1]
<1>1. /\ Head(s) \in S /\ Tail(s) \in Seq(S) /\ 1 \in DOMAIN s /\ s[1] = Head(s)
      /\ \A i \in DOMAIN Tail(s) : i \in Nat \ {0} /\ i + 1 \in DOMAIN s /\ Tail(s)[i] = s[i + 1]
  OBVIOUS
<1>2. \A i \in DOMAIN s : i = 1 \/ (i - 1 \in DOMAIN Tail(s) /\ Tail(s)[i - 1] = s[i])
  OBVIOUS
<1> DEFINE h == Head(s)
           t == Tail(s)
<1>3. Range(s) = {h} \cup Range(t)
  <2>1. \A i \in DOMAIN t : i + 1 \in DOMAIN s /\ t[i] = s[i + 1]
    BY <1>1
  <2>2. \A i \in DOMAIN s : i = 1 \/ (i - 1 \in DOMAIN t /\ t[i - 1] = s[i])
    BY <1>2
  <2>3. 1 \in DOMAIN s /\ s[1] = h
    BY <1>1
  <2> HIDE DEF h, t
  <2>4. \A e \in Range(s) : e = h \/ e \in Range(t)
    BY <2>2, <2>3 DEF Range
  <2>5. \A e \in Range(t) : e \in Range(s)
    BY <2>1 DEF Range
  <2>6. h \in Range(s)
    BY <2>3 DEF Range
  <2>7. QED
    BY <2>4, <2>5, <2>6
<1>4. QED
  BY <1>1, <1>3

\* Nodes have the numbers before the ones given to new nodes.
LEMMA Numbers ==
  /\ Cardinality(Node) \in Nat
  /\ \A n \in Node : n \in Nat /\ n < Cardinality(Node)
<1>1. Cardinality(Node) \in Nat
  BY NodeAssumption, FS_CardinalityType
<1>2. QED
  BY <1>1, NodesAreNumbered

\* A set of edges is finite.
LEMMA EdgesFinite ==
  ASSUME edges \subseteq Node \X Node
  PROVE  IsFiniteSet(edges) /\ IsFiniteSet(Gone) /\ Cardinality(Gone) \in Nat
<1>1. IsFiniteSet(Node \X Node)
  BY NodeAssumption, FS_Product
<1>2. IsFiniteSet(edges)
  BY <1>1, FS_Subset
<1>3. QED
  BY <1>2, FS_Subset, FS_CardinalityType DEF Gone

\* One task of transform(tasks): the edge goes, two edges at a new node come.
LEMMA SplitInv ==
  ASSUME edges \subseteq Node \X Node, GraphInv,
         NEW e \in edges, e \in DOMAIN graph, graph' = Split(e), edges' = edges,
         next_id = Cardinality(Node) + Cardinality(Gone), next_id' = next_id + 1
  PROVE  /\ Gone' = Gone \cup {e} /\ Cardinality(Gone') = Cardinality(Gone) + 1
         /\ GraphInv'
<1> DEFINE n == next_id
           before == <<e[1], n>>
           after == <<n, e[2]>>
<1>1. /\ Cardinality(Node) \in Nat /\ Cardinality(Gone) \in Nat /\ IsFiniteSet(Gone)
      /\ n \in Nat /\ Cardinality(Node) <= n /\ n' = n + 1
  BY Numbers, EdgesFinite
<1>2. /\ e[1] \in Node /\ e[2] \in Node /\ e[1] \in Nat /\ e[2] \in Nat
      /\ e[1] < Cardinality(Node) /\ e[2] < Cardinality(Node) /\ n \notin Node /\ e = <<e[1], e[2]>>
  BY <1>1, Numbers
<1>3. before \notin edges /\ after \notin edges /\ before # after
  BY <1>1, <1>2
<1>4. before \notin New /\ after \notin New
  BY <1>1 DEF GraphInv
<1>5. DOMAIN graph' = (DOMAIN graph \ {e}) \cup {before, after}
  BY DEF Split
<1>6. /\ graph'[before] = graph[e] /\ graph'[after] = PhiEdge
      /\ \A d \in DOMAIN graph \ {e} : d # before /\ d # after => graph'[d] = graph[d]
  <2> HIDE DEF before, after
  <2>1. graph' = [d \in (DOMAIN graph \ {e}) \cup {before, after} |->
                    CASE d = before -> graph[e] [] d = after -> PhiEdge [] OTHER -> graph[d]]
    BY DEF Split, before, after
  <2>2. QED
    BY <1>3, <2>1
<1> HIDE DEF before, after, n
<1>7. Gone' = Gone \cup {e} /\ e \notin Gone
  BY <1>3, <1>5 DEF Gone
<1>8. Cardinality(Gone') = Cardinality(Gone) + 1
  BY <1>1, <1>7, FS_AddElement
<1>9. New' = New \cup {before} \cup {after}
  BY <1>3, <1>5 DEF New
<1>10. graph[e] = e
  BY <1>7 DEF GraphInv
<1>11. \A d \in edges \ Gone' : graph'[d] = d
  <2>1. ASSUME NEW d \in edges \ Gone' PROVE graph'[d] = d
    <3>1. d \in edges \ Gone /\ d # e /\ d \in DOMAIN graph
      BY <1>7, <2>1 DEF Gone
    <3>2. d # before /\ d # after
      BY <1>3, <3>1
    <3>3. QED
      BY <1>6, <3>1, <3>2 DEF GraphInv
  <2>2. QED
    BY <2>1
<1>12. IsFiniteSet(New') /\ Cardinality(New') = 2 * Cardinality(Gone')
  <2>1. IsFiniteSet(New) /\ Cardinality(New) = 2 * Cardinality(Gone)
    BY DEF GraphInv
  <2>2. IsFiniteSet(New \cup {before}) /\ Cardinality(New \cup {before}) = Cardinality(New) + 1
    BY <1>4, <2>1, FS_AddElement
  <2>3. after \notin New \cup {before}
    BY <1>3, <1>4
  <2>4. /\ IsFiniteSet((New \cup {before}) \cup {after})
        /\ Cardinality((New \cup {before}) \cup {after}) = Cardinality(New \cup {before}) + 1
    BY <2>2, <2>3, FS_AddElement
  <2>5. QED
    BY <1>1, <1>8, <1>9, <2>1, <2>2, <2>4
<1>13. \A d \in New' : \E a, b \in 0..(n' - 1) : d = <<a, b>>
  <2>1. ASSUME NEW d \in New PROVE \E a, b \in 0..(n' - 1) : d = <<a, b>>
    <3>1. PICK a \in 0..(n - 1), b \in 0..(n - 1) : d = <<a, b>>
      BY DEF GraphInv, n
    <3>2. a \in 0..(n' - 1) /\ b \in 0..(n' - 1)
      BY <1>1
    <3>3. QED
      BY <3>1, <3>2
  <2>2. e[1] \in 0..(n' - 1) /\ e[2] \in 0..(n' - 1) /\ n \in 0..(n' - 1)
    BY <1>1, <1>2
  <2>3. QED
    BY <1>9, <2>1, <2>2 DEF before, after
<1>14. ASSUME NEW d \in Gone'
       PROVE  \E m \in Cardinality(Node)..(n' - 1) :
                /\ {f \in New' : m \in {f[1], f[2]}} = {<<d[1], m>>, <<m, d[2]>>}
                /\ graph'[<<d[1], m>>] = d /\ graph'[<<m, d[2]>>] = PhiEdge
  <2>1. CASE d = e
    <3>1. n \in Cardinality(Node)..(n' - 1)
      BY <1>1
    <3>2. ASSUME NEW f \in New PROVE n \notin {f[1], f[2]}
      <4>1. PICK a \in 0..(n - 1), b \in 0..(n - 1) : f = <<a, b>>
        BY DEF GraphInv, n
      <4>2. QED
        BY <1>1, <4>1
    <3>3. n \in {before[1], before[2]} /\ n \in {after[1], after[2]}
      BY DEF before, after
    <3>4. {f \in New' : n \in {f[1], f[2]}} = {before, after}
      BY <1>9, <3>2, <3>3
    <3>5. QED
      BY <1>6, <1>10, <2>1, <3>1, <3>4 DEF before, after
  <2>2. CASE d # e
    <3>1. d \in Gone
      BY <1>7, <2>2
    <3>2. PICK m \in Cardinality(Node)..(n - 1) :
            /\ {f \in New : m \in {f[1], f[2]}} = {<<d[1], m>>, <<m, d[2]>>}
            /\ graph[<<d[1], m>>] = d /\ graph[<<m, d[2]>>] = PhiEdge
      BY <3>1 DEF GraphInv, n
    <3>3. m \in Cardinality(Node)..(n' - 1)
      BY <1>1
    <3>4. m \notin {before[1], before[2]} /\ m \notin {after[1], after[2]}
      BY <1>1, <1>2 DEF before, after
    <3>5. {f \in New' : m \in {f[1], f[2]}} = {<<d[1], m>>, <<m, d[2]>>}
      BY <1>9, <3>2, <3>4
    <3>6. <<d[1], m>> \in New /\ <<m, d[2]>> \in New
      BY <3>2
    <3>7. \A f \in New : graph'[f] = graph[f]
      BY <1>4, <1>6 DEF New
    <3>8. QED
      BY <3>2, <3>3, <3>5, <3>6, <3>7
  <2>3. QED
    BY <2>1, <2>2
<1>15. GraphInv'
  <2>1. (\A d \in edges \ Gone : graph[d] = d)'
    BY <1>11
  <2>2. (IsFiniteSet(New) /\ Cardinality(New) = 2 * Cardinality(Gone))'
    BY <1>12
  <2>3. (\A d \in New : \E a, b \in 0..(next_id - 1) : d = <<a, b>>)'
    BY <1>13 DEF n
  <2>4. (\A d \in Gone : \E m \in Cardinality(Node)..(next_id - 1) :
           /\ {f \in New : m \in {f[1], f[2]}} = {<<d[1], m>>, <<m, d[2]>>}
           /\ graph[<<d[1], m>>] = d /\ graph[<<m, d[2]>>] = PhiEdge)'
    BY <1>14 DEF n
  <2>5. QED
    BY <2>1, <2>2, <2>3, <2>4 DEF GraphInv
<1>16. QED
  BY <1>7, <1>8, <1>15

-----------------------------------------------------------------------------
(* The invariant *)

\* phi_inserter moves the iterator by ++ only.
LEMMA PhiSteps == [PhiNext]_all_vars => [Next]_vars
BY DEF PhiNext, Collect, EndCollect, Update, Transform, EndTransform, all_vars, Next

\* Before the first task the graph is the given one.
LEMMA PhiInitInv == PhiInit /\ IInv => PhiInv
<1> SUFFICES ASSUME PhiInit, IInv PROVE PhiInv
  OBVIOUS
<1>1. /\ edges \subseteq Node \X Node /\ needs \subseteq edges /\ handed \subseteq edges
      /\ DOMAIN graph = edges /\ \A e \in edges : graph[e] = e
      /\ next_id = Cardinality(Node) /\ tasks = <<>> /\ expanded = {}
      /\ (pc = "collect" /\ handed = {}) \/ pc = "update"
  BY DEF PhiInit, Init, IInv, TypeOK
<1>2. Gone = {} /\ New = {}
  BY <1>1 DEF Gone, New
<1>3. Range(<<>>) = {} /\ DOMAIN <<>> = {}
  BY DEF Range
<1>4. Cardinality({}) = 0 /\ IsFiniteSet({}) /\ Cardinality(Node) \in Nat
  BY FS_EmptySet, Numbers
<1>5. PhaseInv
  BY <1>1, <1>2, <1>4 DEF PhaseInv
<1>6. GraphInv
  BY <1>1, <1>2, <1>4 DEF GraphInv
<1>7. TaskInv
  BY <1>1, <1>2, <1>3 DEF TaskInv, Considered
<1>8. QED
  BY <1>5, <1>6, <1>7 DEF PhiInv

\* The loop of transform(): the tasks of the node are appended.  A task comes again
\* only when its node does.
LEMMA CollectInv == IInv /\ PhiInv /\ Collect => PhiInv'
<1> SUFFICES ASSUME IInv, PhiInv, Collect PROVE PhiInv'
  OBVIOUS
<1> DEFINE h == Head(inner_component)
<1>1. PICK new \in AscendingPairs(Wanted(h)) : tasks' = tasks \o new
  BY DEF Collect
<1>2. /\ pc = "collect" /\ pc' = pc /\ needs' = needs /\ handed' = handed /\ graph' = graph
      /\ next_id' = next_id /\ edges' = edges /\ ~end
      /\ passed' = Append(passed, h) /\ expanded' = expanded \cup {h}
  BY DEF Collect, Advance
<1>3. /\ passed \in Seq(Node) /\ inner_component \in Seq(Node) /\ inner_component # <<>>
      /\ edges \subseteq Node \X Node /\ expanded \subseteq Range(passed)
  BY <1>2 DEF IInv, TypeOK
<1>4. h \in Node
  BY <1>3, Ranges
<1>5. tasks \in Seq(edges) /\ needs \subseteq edges /\ Gone = {} /\ handed = {}
  BY <1>2 DEF PhiInv, PhaseInv
<1> HIDE DEF h
<1>6. Wanted(h) \in SUBSET edges /\ \A e \in Wanted(h) : e[1] = h
  BY <1>5 DEF Wanted
<1>7. new \in Seq(edges) /\ Range(new) = Wanted(h) /\ \A i, j \in DOMAIN new : new[i] = new[j] => i = j
  <2>1. Wanted(h) \in SUBSET (Node \X Node)
    BY <1>3, <1>6
  <2>2. new \in Seq(Wanted(h)) /\ Range(new) = Wanted(h) /\ \A i, j \in DOMAIN new : new[i] = new[j] => i = j
    BY <2>1, PairsSeq
  <2>3. new \in Seq(edges)
    BY <1>6, <2>2
  <2>4. QED
    BY <2>2, <2>3
<1>8. /\ tasks' \in Seq(edges) /\ Range(tasks') = Range(tasks) \cup Wanted(h)
      /\ \A i \in DOMAIN tasks' :
           \/ i \in DOMAIN tasks /\ tasks'[i] = tasks[i]
           \/ i \notin DOMAIN tasks /\ i - Len(tasks) \in DOMAIN new /\ tasks'[i] = new[i - Len(tasks)]
  BY <1>1, <1>5, <1>7, Concatenated
<1>9. Gone' = {} /\ New' = New
  BY <1>2, <1>5 DEF Gone, New
<1>10. PhaseInv'
  BY <1>2, <1>5, <1>8, <1>9 DEF PhiInv, PhaseInv
<1>11. GraphInv'
  BY <1>2, <1>5, <1>9 DEF PhiInv, GraphInv
<1>12. (pc # "update" => Gone \cup Range(tasks) = Considered \cap needs)'
  <2>1. Range(tasks) = {e \in needs : e[1] \in expanded}
    BY <1>2, <1>5 DEF PhiInv, TaskInv, Considered
  <2>2. Range(tasks') = {e \in needs : e[1] \in expanded'}
    BY <1>2, <1>8, <2>1 DEF Wanted
  <2>3. QED
    BY <1>2, <1>5, <1>9, <2>2 DEF Considered
<1>13. ASSUME NEW m, Revisited(m) PROVE Revisited(m)'
  <2>1. PICK i \in DOMAIN passed, j \in DOMAIN passed : i < j /\ passed[i] = passed[j] /\ passed[i] = m
    BY <1>13 DEF Revisited
  <2>2. i \in DOMAIN passed' /\ j \in DOMAIN passed' /\ passed'[i] = passed[i] /\ passed'[j] = passed[j]
    BY <1>2, <1>3, <1>4
  <2>3. QED
    BY <2>1, <2>2 DEF Revisited
<1>14. ASSUME NEW a \in DOMAIN tasks', NEW b \in DOMAIN tasks', a < b, tasks'[a] = tasks'[b]
       PROVE  Revisited(tasks[a][1])'
  <2>1. DOMAIN tasks' \subseteq Nat /\ Len(tasks) \in Nat /\ DOMAIN tasks = 1..Len(tasks)
    BY <1>5, <1>8
  <2>2. CASE b \in DOMAIN tasks
    <3>1. a \in DOMAIN tasks
      BY <1>14, <2>1, <2>2
    <3>2. tasks'[a] = tasks[a] /\ tasks'[b] = tasks[b]
      BY <1>8, <2>2, <3>1
    <3>3. Revisited(tasks[a][1])
      BY <1>14, <2>2, <3>1, <3>2 DEF PhiInv, TaskInv
    <3>4. QED
      BY <1>13, <3>2, <3>3
  <2>3. CASE b \notin DOMAIN tasks
    <3>1. b - Len(tasks) \in DOMAIN new /\ tasks'[b] = new[b - Len(tasks)]
      BY <1>8, <2>3
    <3>2. tasks'[b] \in Wanted(h) /\ tasks'[b][1] = h
      BY <1>6, <1>7, <3>1 DEF Range
    <3>3. a \in DOMAIN tasks
      <4>1. ASSUME a \notin DOMAIN tasks PROVE FALSE
        <5>1. a - Len(tasks) \in DOMAIN new /\ tasks'[a] = new[a - Len(tasks)]
          BY <1>8, <4>1
        <5>2. a - Len(tasks) = b - Len(tasks)
          BY <1>7, <1>14, <3>1, <5>1
        <5>3. a \in Nat /\ b \in Nat
          BY <2>1
        <5>4. QED
          BY <1>14, <2>1, <5>2, <5>3
      <4>2. QED
        BY <4>1
    <3>4. tasks'[a] \in Range(tasks)
      BY <1>8, <3>3 DEF Range
    <3>5. tasks'[a][1] \in expanded
      BY <1>2, <1>5, <3>4 DEF PhiInv, TaskInv, Considered
    <3>6. h \in Range(passed) /\ tasks'[a][1] = h
      BY <1>3, <1>14, <3>2, <3>5
    <3>7. PICK i \in 1..Len(passed) : passed[i] = h
      BY <1>3, <3>6, InRange
    <3>8. /\ i \in DOMAIN passed' /\ passed'[i] = h /\ Len(passed) + 1 \in DOMAIN passed'
          /\ passed'[Len(passed) + 1] = h /\ i < Len(passed) + 1
      BY <1>2, <1>3, <1>4, <3>7
    <3>9. QED
      BY <3>6, <3>8 DEF Revisited
  <2>4. QED
    BY <2>2, <2>3
<1>15. TaskInv'
  BY <1>2, <1>5, <1>9, <1>12, <1>14 DEF TaskInv
<1>16. QED
  BY <1>10, <1>11, <1>15 DEF PhiInv

\* The loop of update(): an edge handed to it is a task once.
LEMMA UpdateInv == IInv /\ PhiInv /\ Update => PhiInv'
<1> SUFFICES ASSUME IInv, PhiInv, Update PROVE PhiInv'
  OBVIOUS
<1>1. /\ pc = "update" /\ pc' = "transform" /\ tasks' \in AscendingPairs(handed \cap needs)
      /\ UNCHANGED <<needs, handed, graph, next_id, edges, passed, expanded>>
  BY DEF Update, vars
<1>2. edges \subseteq Node \X Node
  BY DEF IInv, TypeOK
<1>3. needs \subseteq edges /\ handed \subseteq edges /\ Gone = {} /\ expanded = {}
  BY <1>1 DEF PhiInv, PhaseInv
<1>4. /\ tasks' \in Seq(edges) /\ Range(tasks') = handed \cap needs
      /\ \A i, j \in DOMAIN tasks' : tasks'[i] = tasks'[j] => i = j /\ ~(i < j)
  <2>1. handed \cap needs \in SUBSET (Node \X Node) /\ handed \cap needs \subseteq edges
    BY <1>2, <1>3
  <2>2. /\ tasks' \in Seq(handed \cap needs) /\ Range(tasks') = handed \cap needs
        /\ \A i, j \in DOMAIN tasks' : tasks'[i] = tasks'[j] => i = j
    BY <1>1, <2>1, PairsSeq
  <2>3. tasks' \in Seq(edges) /\ DOMAIN tasks' \subseteq Nat
    BY <2>1, <2>2
  <2>4. QED
    BY <2>2, <2>3
<1>5. Gone' = {} /\ New' = New
  BY <1>1, <1>3 DEF Gone, New
<1>6. PhaseInv'
  BY <1>1, <1>3, <1>4, <1>5 DEF PhiInv, PhaseInv
<1>7. GraphInv'
  BY <1>1, <1>3, <1>5 DEF PhiInv, GraphInv
<1>8. TaskInv'
  <2>1. Considered' \cap needs' = handed \cap needs
    BY <1>1, <1>3 DEF Considered
  <2>2. QED
    BY <1>4, <1>5, <2>1 DEF TaskInv
<1>9. QED
  BY <1>6, <1>7, <1>8 DEF PhiInv

\* A task: its edge is split, or was split before.
LEMMA TransformInv == IInv /\ PhiInv /\ Transform => PhiInv'
<1> SUFFICES ASSUME IInv, PhiInv, Transform PROVE PhiInv'
  OBVIOUS
<1> DEFINE e == Head(tasks)
<1>1. /\ pc = "transform" /\ tasks # <<>> /\ next_id' = next_id + 1
      /\ UNCHANGED <<needs, handed, edges, passed, expanded>>
  BY DEF Transform, vars
<1>2. /\ edges \subseteq Node \X Node
      /\ needs \subseteq edges /\ handed \subseteq edges /\ tasks \in Seq(edges)
      /\ next_id = Cardinality(Node) + Cardinality(Gone)
      /\ Gone \cup Range(tasks) = Considered \cap needs
  BY <1>1 DEF IInv, TypeOK, PhiInv, PhaseInv, TaskInv
<1>3. /\ e \in edges /\ Tail(tasks) \in Seq(edges) /\ Range(tasks) = {e} \cup Range(Tail(tasks))
      /\ 1 \in DOMAIN tasks /\ tasks[1] = e
      /\ \A i \in DOMAIN Tail(tasks) :
           i \in Nat \ {0} /\ i + 1 \in DOMAIN tasks /\ Tail(tasks)[i] = tasks[i + 1]
  BY <1>1, <1>2, TakenApart
<1>4. Considered' = Considered
  BY <1>1 DEF Considered
<1>5. \A m : Revisited(m)' <=> Revisited(m)
  BY <1>1 DEF Revisited
<1>6. Cardinality(Node) \in Nat /\ Cardinality(Gone) \in Nat
  BY <1>2, Numbers, EdgesFinite
<1>7. CASE e \in DOMAIN graph
  <2>1. graph' = Split(e) /\ tasks' = Tail(tasks) /\ pc' = pc
    BY <1>7 DEF Transform
  <2>2. Gone' = Gone \cup {e} /\ Cardinality(Gone') = Cardinality(Gone) + 1 /\ GraphInv'
    BY <1>1, <1>2, <1>3, <1>7, <2>1, SplitInv DEF PhiInv
  <2> HIDE DEF e
  <2>3. PhaseInv'
    BY <1>1, <1>2, <1>3, <1>6, <2>1, <2>2 DEF PhaseInv
  <2>4. (pc # "update" => Gone \cup Range(tasks) = Considered \cap needs)'
    BY <1>1, <1>2, <1>3, <1>4, <2>1, <2>2
  <2>5. ASSUME NEW a \in DOMAIN tasks', NEW b \in DOMAIN tasks', a < b, tasks'[a] = tasks'[b]
        PROVE  handed = {} /\ Revisited(tasks'[a][1])
    <3>1. /\ a + 1 \in DOMAIN tasks /\ b + 1 \in DOMAIN tasks /\ a + 1 < b + 1
          /\ tasks'[a] = tasks[a + 1] /\ tasks'[b] = tasks[b + 1]
      BY <1>3, <2>1, <2>5
    <3>2. QED
      BY <2>5, <3>1 DEF PhiInv, TaskInv
  <2>6. ASSUME NEW a \in DOMAIN tasks', tasks'[a] \in Gone'
        PROVE  handed = {} /\ Revisited(tasks'[a][1])
    <3>1. a + 1 \in DOMAIN tasks /\ 1 < a + 1 /\ tasks'[a] = tasks[a + 1]
      BY <1>3, <2>1
    <3>2. CASE tasks'[a] \in Gone
      BY <3>1, <3>2 DEF PhiInv, TaskInv
    <3>3. CASE tasks'[a] = e
      <4>1. tasks[1] = tasks[a + 1]
        BY <1>3, <3>1, <3>3
      <4>2. handed = {} /\ Revisited(tasks[1][1])
        BY <1>3, <3>1, <4>1 DEF PhiInv, TaskInv
      <4>3. QED
        BY <1>3, <3>3, <4>2
    <3>4. QED
      BY <2>2, <2>6, <3>2, <3>3
  <2>7. TaskInv'
    BY <1>1, <1>5, <2>4, <2>5, <2>6 DEF TaskInv
  <2>8. QED
    BY <2>2, <2>3, <2>7 DEF PhiInv
<1>8. CASE e \notin DOMAIN graph
  <2>1. pc' = "thrown" /\ graph' = graph /\ tasks' = tasks
    BY <1>8 DEF Transform
  <2>2. Gone' = Gone /\ New' = New /\ e \in Gone
    BY <1>1, <1>3, <1>8, <2>1 DEF Gone, New
  <2>3. PhaseInv'
    BY <1>1, <1>2, <1>6, <2>1, <2>2 DEF PhaseInv
  <2>4. GraphInv'
    <3>1. Cardinality(Node)..(next_id - 1) \subseteq Cardinality(Node)'..(next_id' - 1)
      BY <1>1, <1>2, <1>6
    <3>2. 0..(next_id - 1) \subseteq 0..(next_id' - 1)
      BY <1>1, <1>2, <1>6
    <3>3. GraphInv
      BY DEF PhiInv
    <3>4. (\A d \in edges \ Gone : graph[d] = d)' /\ (IsFiniteSet(New) /\ Cardinality(New) = 2 * Cardinality(Gone))'
      BY <1>1, <2>1, <2>2, <3>3 DEF GraphInv
    <3>5. (\A d \in New : \E a, b \in 0..(next_id - 1) : d = <<a, b>>)'
      BY <2>2, <3>2, <3>3 DEF GraphInv
    <3>6. (\A d \in Gone : \E m \in Cardinality(Node)..(next_id - 1) :
             /\ {f \in New : m \in {f[1], f[2]}} = {<<d[1], m>>, <<m, d[2]>>}
             /\ graph[<<d[1], m>>] = d /\ graph[<<m, d[2]>>] = PhiEdge)'
      BY <2>1, <2>2, <3>1, <3>3 DEF GraphInv
    <3>7. QED
      BY <3>4, <3>5, <3>6 DEF GraphInv
  <2>5. TaskInv'
    BY <1>1, <1>2, <1>4, <1>5, <2>1, <2>2 DEF TaskInv, PhiInv
  <2>6. QED
    BY <2>3, <2>4, <2>5 DEF PhiInv
<1>9. QED
  BY <1>7, <1>8

\* Every step keeps the invariant ...
LEMMA PhiNextInv == IInv /\ PhiInv /\ [PhiNext]_all_vars => PhiInv'
<1> SUFFICES ASSUME IInv, PhiInv, [PhiNext]_all_vars PROVE PhiInv'
  OBVIOUS
<1>1. ASSUME UNCHANGED <<edges, passed, expanded, needs, handed, tasks, graph, next_id>>,
             pc' = pc \/ (pc = "collect" /\ pc' = "transform")
                      \/ (pc = "transform" /\ tasks = <<>> /\ pc' = "done")
      PROVE  PhiInv'
  <2>1. Gone' = Gone /\ New' = New /\ Considered' = Considered
    BY <1>1 DEF Gone, New, Considered
  <2>2. PhaseInv'
    BY <1>1, <2>1 DEF PhiInv, PhaseInv
  <2>3. GraphInv'
    BY <1>1, <2>1 DEF PhiInv, GraphInv
  <2>4. TaskInv'
    BY <1>1, <2>1 DEF PhiInv, TaskInv, Revisited
  <2>5. QED
    BY <2>2, <2>3, <2>4 DEF PhiInv
<1>2. CASE EndCollect
  BY <1>1, <1>2 DEF EndCollect, vars
<1>3. CASE EndTransform
  BY <1>1, <1>3 DEF EndTransform, vars
<1>4. CASE UNCHANGED all_vars
  BY <1>1, <1>4 DEF all_vars, phi_vars, vars
<1>5. QED
  BY <1>2, <1>3, <1>4, CollectInv, UpdateInv, TransformInv DEF PhiNext

\* The loop of phi_inserter is one over the iterator: whatever holds of every loop
\* over it holds here.
THEOREM PhiLoopsOver == PhiSpec => Spec
<1>1. PhiInit => Init
  BY DEF PhiInit
<1>2. QED
  BY <1>1, PhiSteps, PTL DEF PhiSpec, Spec

\* ... so that it holds in every state.
LEMMA PhiInvInv == PhiSpec => [](IInv /\ PhiInv)
<1>1. PhiInit => IInv /\ PhiInv
  BY InitInv, PhiInitInv DEF PhiInit
<1>2. IInv /\ PhiInv /\ [PhiNext]_all_vars => (IInv /\ PhiInv)'
  BY NextInv, PhiNextInv, PhiSteps
<1>3. QED
  BY <1>1, <1>2, PTL DEF PhiSpec

\* update() never finds its edge gone, and transform() only when the iterator
\* delivered the node of the edge twice.
THEOREM ThrowsSafe == PhiSpec => []ThrowsOnlyOnRevisit
<1>1. IInv /\ PhiInv => ThrowsOnlyOnRevisit
  <2> SUFFICES ASSUME PhiInv, pc = "thrown" PROVE handed = {} /\ Revisited(Head(tasks)[1])
    BY DEF ThrowsOnlyOnRevisit, Revisited
  <2>1. tasks \in Seq(edges) /\ tasks # <<>> /\ Head(tasks) \in Gone
    BY DEF PhiInv, PhaseInv
  <2>2. 1 \in DOMAIN tasks /\ tasks[1] = Head(tasks)
    BY <2>1
  <2>3. QED
    BY <2>1, <2>2 DEF PhiInv, TaskInv
<1>2. QED
  BY <1>1, PhiInvInv, PTL

\* While the tasks are carried out the edges split and the tasks left are those that
\* need a phi edge, each split by a node of its own; a throw changes nothing of that,
\* and has one cause.
THEOREM InsertedSafe == PhiSpec => []PhisInserted
<1>1. IInv /\ PhiInv /\ ThrowsOnlyOnRevisit => PhisInserted
  <2> SUFFICES ASSUME IInv, PhiInv, ThrowsOnlyOnRevisit PROVE PhisInserted
    OBVIOUS
  <2>1. {tasks[i] : i \in DOMAIN tasks} = Range(tasks)
    BY DEF Range
  <2>2. pc \in {"transform", "thrown", "done"} =>
          Gone \cup {tasks[i] : i \in DOMAIN tasks} = Considered \cap needs
    BY <2>1 DEF PhiInv, TaskInv
  <2>3. pc = "done" => tasks = <<>>
    BY DEF PhiInv, PhaseInv
  <2>4. next_id = Cardinality(Node) + Cardinality(Gone) + (IF pc = "thrown" THEN 1 ELSE 0)
    <3>1. edges \subseteq Node \X Node
      BY DEF IInv, TypeOK
    <3>2. Cardinality(Gone) \in Nat /\ Cardinality(Node) \in Nat
      BY <3>1, EdgesFinite, Numbers
    <3>3. QED
      BY <3>2 DEF PhiInv, PhaseInv
  <2>5. GraphInv
    BY DEF PhiInv
  <2>6. QED
    BY <2>2, <2>3, <2>4, <2>5 DEF PhisInserted, GraphInv, Gone, New
<1>2. PhiSpec => []ThrowsOnlyOnRevisit
  BY ThrowsSafe
<1>3. QED
  BY <1>1, <1>2, PhiInvInv, PTL
=============================================================================
