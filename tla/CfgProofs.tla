----------------------------- MODULE CfgProofs -----------------------------
(***************************************************************************)
(* What the observers of the graph know agrees with the graph whenever     *)
(* everything is committed, for every number and order of operations,      *)
(* merges, scopes and registrations.                                       *)
(***************************************************************************)
EXTENDS Cfg, TLAPS

\* All update lists.
Lists == UNION {[S -> Kind] : S \in SUBSET (Nat \X Nat)}

\* What a stack of lists says of an edge in the end: nothing, or whether the
\* last update of the edge, in the highest list that names it, erases it.
Untouched(s, e) == \A k \in DOMAIN s : e \notin DOMAIN s[k]
Topmost(s, e, k) == /\ k \in DOMAIN s /\ e \in DOMAIN s[k]
                    /\ \A j \in DOMAIN s : j > k => e \notin DOMAIN s[j]
Inserted(s, e) == \E k \in DOMAIN s : Topmost(s, e, k) /\ s[k][e] # "ERASE"
Erased(s, e) == \E k \in DOMAIN s : Topmost(s, e, k) /\ s[k][e] = "ERASE"

LEMMA ConcatTyped ==
  ASSUME NEW u \in Lists, NEW v \in Lists
  PROVE  Concat(u, v) \in Lists
<1>1. PICK S \in SUBSET (Nat \X Nat) : u \in [S -> Kind]
  BY DEF Lists
<1>2. PICK T \in SUBSET (Nat \X Nat) : v \in [T -> Kind]
  BY DEF Lists
<1>3. Concat(u, v) \in [S \cup T -> Kind]
  BY <1>1, <1>2 DEF Concat
<1>4. S \cup T \in SUBSET (Nat \X Nat)
  OBVIOUS
<1> QED BY <1>3, <1>4 DEF Lists

LEMMA Exclusive ==
  ASSUME NEW s \in Seq(Lists), NEW e
  PROVE  /\ ~(Inserted(s, e) /\ Erased(s, e))
         /\ ~(Inserted(s, e) /\ Untouched(s, e))
         /\ ~(Erased(s, e) /\ Untouched(s, e))
<1>1. ~(Inserted(s, e) /\ Erased(s, e))
  <2> SUFFICES ASSUME NEW k \in DOMAIN s, Topmost(s, e, k), s[k][e] # "ERASE",
                      NEW j \in DOMAIN s, Topmost(s, e, j), s[j][e] = "ERASE"
               PROVE  FALSE
    BY DEF Inserted, Erased
  <2>1. k \in Nat /\ j \in Nat
    OBVIOUS
  <2>2. ~(j > k) /\ ~(k > j)
    BY DEF Topmost
  <2> QED BY <2>1, <2>2
<1>2. ~(Inserted(s, e) /\ Untouched(s, e)) /\ ~(Erased(s, e) /\ Untouched(s, e))
  BY DEF Inserted, Erased, Untouched, Topmost
<1> QED BY <1>1, <1>2

\* Noting a list adds its updates to what the stack says.
LEMMA NoteNet ==
  ASSUME NEW s \in Seq(Lists), s # <<>>, NEW u \in Lists, NEW e
  PROVE  LET t == [s EXCEPT ![Len(s)] = Concat(@, u)] IN
         /\ t \in Seq(Lists) /\ Len(t) = Len(s)
         /\ e \notin DOMAIN u => /\ Untouched(t, e) <=> Untouched(s, e)
                                 /\ Inserted(t, e) <=> Inserted(s, e)
                                 /\ Erased(t, e) <=> Erased(s, e)
         /\ e \in DOMAIN u => IF u[e] = "ERASE" THEN Erased(t, e)
                                                ELSE Inserted(t, e)
<1> DEFINE n == Len(s)
           t == [s EXCEPT ![n] = Concat(@, u)]
<1>1. n \in Nat \ {0} /\ DOMAIN s = 1 .. n /\ s[n] \in Lists
  OBVIOUS
<1>2. Concat(s[n], u) \in Lists
  BY <1>1, ConcatTyped
<1>3. t \in Seq(Lists) /\ Len(t) = n /\ DOMAIN t = 1 .. n
  BY <1>1, <1>2
<1>4. /\ t[n] = Concat(s[n], u)
      /\ \A i \in 1 .. n : i # n => t[i] = s[i]
  <2>1. s \in [1 .. n -> Lists] /\ n \in 1 .. n
    BY <1>1
  <2> HIDE DEF n
  <2> QED BY <2>1
<1>5. /\ DOMAIN Concat(s[n], u) = DOMAIN s[n] \cup DOMAIN u
      /\ \A x \in DOMAIN u : Concat(s[n], u)[x] = u[x]
      /\ \A x \in DOMAIN s[n] : x \notin DOMAIN u => Concat(s[n], u)[x] = s[n][x]
  BY DEF Concat
<1> HIDE DEF n, t
<1>6. ASSUME e \notin DOMAIN u
      PROVE  \A k \in 1 .. n : /\ e \in DOMAIN t[k] <=> e \in DOMAIN s[k]
                               /\ e \in DOMAIN s[k] => t[k][e] = s[k][e]
  BY <1>1, <1>4, <1>5, <1>6
<1>7. ASSUME e \notin DOMAIN u
      PROVE  \A k : Topmost(t, e, k) <=> Topmost(s, e, k)
  BY <1>1, <1>3, <1>6, <1>7 DEF Topmost
<1>8. ASSUME e \notin DOMAIN u
      PROVE  /\ Untouched(t, e) <=> Untouched(s, e)
             /\ Inserted(t, e) <=> Inserted(s, e)
             /\ Erased(t, e) <=> Erased(s, e)
  <2>1. Untouched(t, e) <=> Untouched(s, e)
    BY <1>1, <1>3, <1>6, <1>8 DEF Untouched
  <2>2. \A k \in 1 .. n : Topmost(s, e, k) => t[k][e] = s[k][e]
    BY <1>6, <1>8 DEF Topmost
  <2> QED BY <2>1, <2>2, <1>1, <1>3, <1>7, <1>8 DEF Inserted, Erased
<1>9. ASSUME e \in DOMAIN u
      PROVE  IF u[e] = "ERASE" THEN Erased(t, e) ELSE Inserted(t, e)
  <2>1. Topmost(t, e, n) /\ t[n][e] = u[e] /\ n \in DOMAIN t
    BY <1>1, <1>3, <1>4, <1>5, <1>9 DEF Topmost
  <2> QED BY <2>1 DEF Inserted, Erased
<1>10. /\ t \in Seq(Lists) /\ Len(t) = n
       /\ e \notin DOMAIN u => /\ Untouched(t, e) <=> Untouched(s, e)
                               /\ Inserted(t, e) <=> Inserted(s, e)
                               /\ Erased(t, e) <=> Erased(s, e)
       /\ e \in DOMAIN u => IF u[e] = "ERASE" THEN Erased(t, e)
                                              ELSE Inserted(t, e)
  BY <1>3, <1>8, <1>9
<1> QED BY <1>10, Zenon DEF t, n

\* Leaving a scope changes nothing of what the stack says.
LEMMA PopNet ==
  ASSUME NEW s \in Seq(Lists), Len(s) > 1
  PROVE  /\ Popped(s) \in Seq(Lists) /\ Len(Popped(s)) = Len(s) - 1
         /\ \A e : /\ Untouched(Popped(s), e) <=> Untouched(s, e)
                   /\ Inserted(Popped(s), e) <=> Inserted(s, e)
                   /\ Erased(Popped(s), e) <=> Erased(s, e)
<1> DEFINE n == Len(s)
           t == Popped(s)
           c == Concat(s[n - 1], s[n])
<1>1. n \in Nat /\ n > 1 /\ DOMAIN s = 1 .. n /\ s[n] \in Lists /\ s[n - 1] \in Lists
  OBVIOUS
<1>2. c \in Lists
  BY <1>1, ConcatTyped
<1>3. /\ t \in Seq(Lists) /\ Len(t) = n - 1 /\ DOMAIN t = 1 .. n - 1
      /\ t[n - 1] = c
      /\ \A i \in 1 .. n - 2 : t[i] = s[i]
  <2>1. t = [i \in 1 .. n - 1 |-> IF i = n - 1 THEN c ELSE s[i]]
    BY DEF Popped
  <2>2. n - 1 \in Nat /\ \A i \in 1 .. n - 1 : i \in 1 .. n /\ s[i] \in Lists
    BY <1>1
  <2> HIDE DEF n, t, c
  <2>3. t \in [1 .. n - 1 -> Lists]
    BY <2>1, <2>2, <1>2
  <2>4. t \in Seq(Lists) /\ Len(t) = n - 1
    BY <2>2, <2>3
  <2> QED BY <2>1, <2>2, <2>4, <1>1
<1>4. /\ DOMAIN c = DOMAIN s[n - 1] \cup DOMAIN s[n]
      /\ \A x \in DOMAIN s[n] : c[x] = s[n][x]
      /\ \A x \in DOMAIN s[n - 1] : x \notin DOMAIN s[n] => c[x] = s[n - 1][x]
  BY DEF Concat
<1> HIDE DEF n, t, c
<1>5. ASSUME NEW e PROVE /\ Untouched(t, e) <=> Untouched(s, e)
                         /\ Inserted(t, e) <=> Inserted(s, e)
                         /\ Erased(t, e) <=> Erased(s, e)
  <2>1. Untouched(t, e) <=> Untouched(s, e)
    <3>1. \A k \in 1 .. n : k \in 1 .. n - 2 \/ k = n - 1 \/ k = n
      BY <1>1
    <3> QED BY <3>1, <1>1, <1>3, <1>4 DEF Untouched
  <2>2. \A k \in 1 .. n - 2 : Topmost(t, e, k) <=> Topmost(s, e, k)
    <3>1. \A k \in 1 .. n : k \in 1 .. n - 2 \/ k = n - 1 \/ k = n
      BY <1>1
    <3> QED BY <3>1, <1>1, <1>3, <1>4 DEF Topmost
  <2>3. Topmost(t, e, n - 1) <=> e \in DOMAIN s[n] \/ e \in DOMAIN s[n - 1]
    BY <1>1, <1>3, <1>4 DEF Topmost
  <2>4. Topmost(s, e, n) <=> e \in DOMAIN s[n]
    BY <1>1 DEF Topmost
  <2>5. Topmost(s, e, n - 1) <=> e \in DOMAIN s[n - 1] /\ e \notin DOMAIN s[n]
    BY <1>1 DEF Topmost
  <2> DEFINE In(r, k) == Topmost(r, e, k) /\ r[k][e] # "ERASE"
             Out(r, k) == Topmost(r, e, k) /\ r[k][e] = "ERASE"
  <2>6. /\ In(t, n - 1) <=> In(s, n - 1) \/ In(s, n)
        /\ Out(t, n - 1) <=> Out(s, n - 1) \/ Out(s, n)
    BY <2>3, <2>4, <2>5, <1>1, <1>3, <1>4
  <2>7. \A k \in 1 .. n - 2 : /\ In(t, k) <=> In(s, k)
                              /\ Out(t, k) <=> Out(s, k)
    BY <2>2, <1>3
  <2> HIDE DEF In, Out
  <2>8. /\ Inserted(t, e) <=> \E k \in 1 .. n - 1 : In(t, k)
        /\ Inserted(s, e) <=> \E k \in 1 .. n : In(s, k)
        /\ Erased(t, e) <=> \E k \in 1 .. n - 1 : Out(t, k)
        /\ Erased(s, e) <=> \E k \in 1 .. n : Out(s, k)
    BY <1>1, <1>3 DEF Inserted, Erased, In, Out
  <2>9. /\ \A k \in 1 .. n : k \in 1 .. n - 2 \/ k = n - 1 \/ k = n
        /\ \A k \in 1 .. n - 1 : k \in 1 .. n - 2 \/ k = n - 1
        /\ n \in 1 .. n /\ n - 1 \in 1 .. n /\ n - 1 \in 1 .. n - 1
        /\ \A k \in 1 .. n - 2 : k \in 1 .. n /\ k \in 1 .. n - 1
    BY <1>1
  <2>10. Inserted(t, e) <=> Inserted(s, e)
    BY <2>6, <2>7, <2>8, <2>9
  <2>11. Erased(t, e) <=> Erased(s, e)
    BY <2>6, <2>7, <2>8, <2>9
  <2> QED BY <2>1, <2>10, <2>11
<1> QED BY <1>3, <1>5 DEF t, n

\* Opening a scope changes nothing either.
LEMMA EmptyTyped == <<>> \in Lists /\ DOMAIN <<>> = {}
<1>1. <<>> \in [{} -> Kind]
  OBVIOUS
<1> QED BY <1>1 DEF Lists

LEMMA PushNet ==
  ASSUME NEW s \in Seq(Lists)
  PROVE  /\ Append(s, <<>>) \in Seq(Lists) /\ Len(Append(s, <<>>)) = Len(s) + 1
         /\ \A e : /\ Untouched(Append(s, <<>>), e) <=> Untouched(s, e)
                   /\ Inserted(Append(s, <<>>), e) <=> Inserted(s, e)
                   /\ Erased(Append(s, <<>>), e) <=> Erased(s, e)
<1> DEFINE n == Len(s)
           t == Append(s, <<>>)
<1>1. /\ n \in Nat /\ DOMAIN s = 1 .. n
      /\ t \in Seq(Lists) /\ Len(t) = n + 1 /\ DOMAIN t = 1 .. n + 1
      /\ t[n + 1] = <<>> /\ \A i \in 1 .. n : t[i] = s[i]
  BY EmptyTyped
<1> HIDE DEF n, t
<1>2. /\ \A k \in 1 .. n + 1 : k \in 1 .. n \/ k = n + 1
      /\ \A k \in 1 .. n : k \in 1 .. n + 1 /\ k # n + 1
  BY <1>1
<1>3. ASSUME NEW e PROVE /\ Untouched(t, e) <=> Untouched(s, e)
                         /\ Inserted(t, e) <=> Inserted(s, e)
                         /\ Erased(t, e) <=> Erased(s, e)
  <2>1. e \notin DOMAIN t[n + 1]
    BY <1>1, EmptyTyped
  <2>2. Untouched(t, e) <=> Untouched(s, e)
    BY <2>1, <1>1, <1>2 DEF Untouched
  <2>3. \A k : Topmost(t, e, k) <=> Topmost(s, e, k)
    BY <2>1, <1>1, <1>2 DEF Topmost
  <2>4. \A k : Topmost(s, e, k) => t[k][e] = s[k][e]
    BY <1>1 DEF Topmost
  <2> QED BY <2>2, <2>3, <2>4 DEF Inserted, Erased, Topmost
<1> QED BY <1>1, <1>3 DEF t, n

-----------------------------------------------------------------------------

\* The list being delivered is still to be read by o.
Awaits(o) == \E i \in DOMAIN observers : observers[i] = o /\ at >= 1 /\ i >= at

\* What o will know of when it has read it.
Seen(o) == IF Awaits(o) THEN Known(view[o], updates) ELSE view[o]

Typed == /\ TypeOK
         /\ updates_stack \in Seq(Lists) /\ updates \in Lists
         /\ \A i, j \in DOMAIN observers : observers[i] = observers[j] => i = j

\* Who is in control.
Control ==
  /\ at = Len(observers) + 1 => Len(updates_stack) = 1
  /\ at \in DOMAIN observers => \/ Len(updates_stack) = 1
                                \/ Len(updates_stack) = 2 /\ observers[at] = "decoder"
  /\ at # 0 /\ Attached("analysis") => record
  /\ record => Attached("analysis")
  /\ ~record => rec = {}

\* The lists not delivered yet, and the one under way where they do not say
\* otherwise, agree with the graph.
Agreement ==
  /\ \A e : /\ e \in edges => Inserted(updates_stack, e) \/ Untouched(updates_stack, e)
            /\ e \notin edges => Erased(updates_stack, e) \/ Untouched(updates_stack, e)
  /\ at \in DOMAIN observers =>
       \A e \in DOMAIN updates :
         Untouched(updates_stack, e) => (updates[e] # "ERASE" <=> e \in edges)

JdInv ==
  Attached("jd_manager") =>
    \A e : e \in edges <=> \/ Inserted(updates_stack, e)
                           \/ Untouched(updates_stack, e) /\ e \in Seen("jd_manager")

RecInv ==
  Attached("analysis") =>
    /\ \A e \in edges :
         \/ e \in view["analysis"] \cup rec
         \/ Inserted(updates_stack, e)
         \/ /\ Untouched(updates_stack, e) /\ Awaits("analysis")
            /\ e \in DOMAIN updates /\ updates[e] # "ERASE"
    /\ \A e \in rec :
         \/ e \in edges
         \/ Erased(updates_stack, e)
         \/ /\ Untouched(updates_stack, e) /\ Awaits("analysis")
            /\ e \in DOMAIN updates /\ updates[e] = "ERASE"

IInv == Typed /\ InEdgesConverse /\ Control /\ Agreement /\ JdInv /\ RecInv

LEMMA InitIInv == Init => IInv
<1> SUFFICES ASSUME Init PROVE IInv
  OBVIOUS
<1>1. Typed
  <2>1. updates_stack \in Seq(Lists) /\ updates_stack # <<>> /\ updates \in Lists
        /\ DOMAIN updates_stack = {1}
    BY EmptyTyped DEF Init
  <2>2. IsList(updates) /\ \A i \in DOMAIN updates_stack : IsList(updates_stack[i])
    BY EmptyTyped, <2>1 DEF Init, IsList
  <2>3. view \in [Observer -> SUBSET (Nodes \X Nodes)]
    BY DEF Init
  <2>4. observers \in Seq(Observer) /\ at \in 0 .. Len(observers) + 1
        /\ DOMAIN observers = {}
    BY DEF Init
  <2>5. count \in Nat \ {0} /\ ops \in Nat /\ record \in BOOLEAN
    <3>1. count = 1 /\ ops = 0 /\ record = FALSE
      BY DEF Init
    <3>2. record \in BOOLEAN
      BY ONLY <3>1, Zenon
    <3>3. count \in Nat \ {0} /\ ops \in Nat
      BY ONLY <3>1
    <3> QED BY <3>2, <3>3
  <2>7. edges \subseteq Nodes \X Nodes /\ rec \subseteq Nodes \X Nodes
    BY DEF Init
  <2>6. \A i, j \in DOMAIN observers : observers[i] = observers[j] => i = j
    BY <2>4
  <2> QED BY <2>1, <2>2, <2>3, <2>4, <2>5, <2>6, <2>7 DEF Typed, TypeOK
<1>2. \A e : Untouched(updates_stack, e)
  BY EmptyTyped DEF Init, Untouched
<1> QED BY <1>1, <1>2 DEF Init, IInv, InEdgesConverse, Control, Agreement, JdInv,
                         RecInv, Attached

-----------------------------------------------------------------------------
\* Steps that change the graph.

LEMMA NoteIInv ==
  ASSUME IInv, NEW u \in Lists, Note(u),
         \A e \in DOMAIN u : u[e] = "ERASE" <=> e \notin edges',
         \A e : e \notin DOMAIN u => (e \in edges' <=> e \in edges),
         in_edges' = edges',
         UNCHANGED <<commit_vars, observer_vars>>
  PROVE  /\ updates_stack' \in Seq(Lists) /\ updates_stack' # <<>>
         /\ InEdgesConverse' /\ Control' /\ Agreement' /\ JdInv' /\ RecInv'
<1> DEFINE s == updates_stack
           t == updates_stack'
<1>1. s \in Seq(Lists) /\ s # <<>> /\ t = [s EXCEPT ![Len(s)] = Concat(@, u)]
  BY DEF IInv, Typed, TypeOK, Note
<1>2. t \in Seq(Lists) /\ Len(t) = Len(s)
  BY <1>1, NoteNet
<1> HIDE DEF s, t
<1>3. ASSUME NEW e
      PROVE  /\ e \notin DOMAIN u => /\ Untouched(t, e) <=> Untouched(s, e)
                                     /\ Inserted(t, e) <=> Inserted(s, e)
                                     /\ Erased(t, e) <=> Erased(s, e)
                                     /\ e \in edges' <=> e \in edges
             /\ e \in DOMAIN u /\ e \in edges' =>
                  Inserted(t, e) /\ ~Untouched(t, e) /\ ~Erased(t, e)
             /\ e \in DOMAIN u /\ e \notin edges' =>
                  Erased(t, e) /\ ~Untouched(t, e) /\ ~Inserted(t, e)
  <2>1. /\ e \notin DOMAIN u => /\ Untouched(t, e) <=> Untouched(s, e)
                                /\ Inserted(t, e) <=> Inserted(s, e)
                                /\ Erased(t, e) <=> Erased(s, e)
        /\ e \in DOMAIN u => IF u[e] = "ERASE" THEN Erased(t, e)
                                               ELSE Inserted(t, e)
    BY <1>1, NoteNet
  <2>2. /\ ~(Inserted(t, e) /\ Erased(t, e))
        /\ ~(Inserted(t, e) /\ Untouched(t, e))
        /\ ~(Erased(t, e) /\ Untouched(t, e))
    BY <1>2, Exclusive
  <2> QED BY <2>1, <2>2
<1>4. t # <<>>
  BY <1>1, <1>2
<1>5. /\ UNCHANGED <<updates, at, observers, view, record, rec>>
      /\ \A o : Attached(o)' = Attached(o) /\ Awaits(o)' = Awaits(o)
                /\ Seen(o)' = Seen(o)
  BY DEF commit_vars, observer_vars, Attached, Awaits, Seen
<1>6. Control'
  BY <1>2, <1>5 DEF IInv, Control, s, t
<1>7. Agreement'
  BY <1>3, <1>5 DEF IInv, Agreement, s, t
<1>8. JdInv'
  BY <1>3, <1>5 DEF IInv, JdInv, s, t
<1>9. RecInv'
  <2> SUFFICES ASSUME Attached("analysis")
               PROVE  /\ \A e \in edges' :
                           \/ e \in view["analysis"] \cup rec
                           \/ Inserted(t, e)
                           \/ /\ Untouched(t, e) /\ Awaits("analysis")
                              /\ e \in DOMAIN updates /\ updates[e] # "ERASE"
                      /\ \A e \in rec :
                           \/ e \in edges'
                           \/ Erased(t, e)
                           \/ /\ Untouched(t, e) /\ Awaits("analysis")
                              /\ e \in DOMAIN updates /\ updates[e] = "ERASE"
    BY <1>5 DEF RecInv, t
  <2>1. RecInv
    BY DEF IInv
  <2> QED BY <2>1, <1>3 DEF RecInv, s
<1> QED BY <1>2, <1>4, <1>6, <1>7, <1>8, <1>9 DEF InEdgesConverse, s, t

\* The types of what the graph's operations leave behind.
LEMMA NoteTyped ==
  ASSUME Typed, NEW u \in Lists, Note(u), updates_stack' \in Seq(Lists),
         updates_stack' # <<>>, count' \in Nat \ {0}, count <= count',
         ops' \in Nat, DOMAIN u \subseteq Nodes' \X Nodes',
         edges' \subseteq Nodes' \X Nodes',
         UNCHANGED <<commit_vars, observer_vars>>
  PROVE  Typed'
<1>1. Nodes \subseteq Nodes'
  <2>1. count \in Nat /\ count' \in Nat /\ count <= count'
    BY DEF Typed, TypeOK
  <2>2. \A c, d \in Nat : c <= d => 0 .. c - 1 \subseteq 0 .. d - 1
    OBVIOUS
  <2>3. 0 .. count - 1 \subseteq 0 .. count' - 1
    BY ONLY <2>1, <2>2
  <2> QED BY ONLY <2>3 DEF Nodes
<1>2. ASSUME NEW i \in DOMAIN updates_stack' PROVE IsList(updates_stack[i])'
  <2> DEFINE n == Len(updates_stack)
  <2>1. /\ updates_stack \in [1 .. n -> Lists] /\ n \in 1 .. n
        /\ DOMAIN updates_stack = 1 .. n
    BY DEF Typed, TypeOK
  <2> HIDE DEF n
  <2>2. /\ DOMAIN updates_stack' = 1 .. n
        /\ updates_stack'[n] = Concat(updates_stack[n], u)
        /\ \A j \in 1 .. n : j # n => updates_stack'[j] = updates_stack[j]
    BY <2>1 DEF Note, n
  <2>3. \A j \in 1 .. n : /\ DOMAIN updates_stack[j] \subseteq Nodes \X Nodes
                          /\ \A e \in DOMAIN updates_stack[j] : updates_stack[j][e] \in Kind
    BY <2>1 DEF Typed, TypeOK, IsList
  <2>4. \A e \in DOMAIN u : u[e] \in Kind
    BY DEF Lists
  <2>5. CASE i # n
    BY <2>2, <2>3, <2>5, <1>1 DEF IsList
  <2>6. CASE i = n
    <3>1. /\ DOMAIN updates_stack'[n] = DOMAIN updates_stack[n] \cup DOMAIN u
          /\ \A e \in DOMAIN updates_stack'[n] :
               updates_stack'[n][e] = IF e \in DOMAIN u THEN u[e]
                                                        ELSE updates_stack[n][e]
      BY <2>2 DEF Concat
    <3> QED BY <3>1, <2>1, <2>3, <2>4, <2>6, <1>1 DEF IsList
  <2> QED BY <2>5, <2>6
<1>3. IsList(updates)'
  BY <1>1 DEF Typed, TypeOK, IsList, commit_vars
<1>4. /\ observers' \in Seq(Observer) /\ at' \in 0 .. Len(observers') + 1
      /\ view' \in [Observer -> SUBSET (Nodes' \X Nodes')]
      /\ record' \in BOOLEAN /\ rec' \subseteq Nodes' \X Nodes'
  <2>1. Nodes \X Nodes \subseteq Nodes' \X Nodes'
    BY <1>1
  <2> QED BY <2>1 DEF Typed, TypeOK, commit_vars, observer_vars
<1>5. /\ updates' \in Lists
      /\ \A i, j \in DOMAIN observers' : observers'[i] = observers'[j] => i = j
  BY DEF Typed, commit_vars, observer_vars
<1> QED BY <1>2, <1>3, <1>4, <1>5 DEF Typed, TypeOK

LEMMA NodesInNat == Typed => Nodes \X Nodes \in SUBSET (Nat \X Nat)
BY DEF Typed, TypeOK, Nodes

LEMMA SingleTyped ==
  ASSUME NEW S \in SUBSET (Nat \X Nat), NEW k \in Kind
  PROVE  [e \in S |-> k] \in Lists
<1>1. [e \in S |-> k] \in [S -> Kind]
  OBVIOUS
<1> QED BY <1>1 DEF Lists

\* Whatever the operation, a copy of a graph lies within the new nodes and the
\* merge node.
LEMMA MappedIdTyped ==
  ASSUME NEW offset \in Nat \ {0}, NEW size \in Nat \ {0},
         NEW merge_node \in 0 .. offset - 1, NEW other_merge_node \in 0 .. size - 1,
         NEW id \in 0 .. size - 1
  PROVE  MappedId(offset, merge_node, other_merge_node, id) \in 0 .. offset + size - 2
BY DEF MappedId

\* A merge identifies no two nodes of the graph it copies, and none of them
\* with a node that was there before except for the two merge nodes; so the
\* identifiers it hands out are exactly those node_payloads grows by.
THEOREM MergeEmbeds ==
  ASSUME NEW offset \in Nat \ {0}, NEW size \in Nat \ {0},
         NEW merge_node \in 0 .. offset - 1, NEW other_merge_node \in 0 .. size - 1
  PROVE  LET m(id) == MappedId(offset, merge_node, other_merge_node, id) IN
         /\ \A i, j \in 0 .. size - 1 : m(i) = m(j) => i = j
         /\ {m(i) : i \in 0 .. size - 1}
              = {merge_node} \cup offset .. offset + size - 2
<1> DEFINE m(id) == MappedId(offset, merge_node, other_merge_node, id)
<1>1. \A i, j \in 0 .. size - 1 : m(i) = m(j) => i = j
  BY DEF MappedId
<1>2. \A i \in 0 .. size - 1 : m(i) \in {merge_node} \cup offset .. offset + size - 2
  BY DEF MappedId
<1>3. m(other_merge_node) = merge_node
  BY DEF MappedId
<1>4. ASSUME NEW n \in offset .. offset + size - 2
      PROVE  \E i \in 0 .. size - 1 : m(i) = n
  <2>1. CASE n - offset < other_merge_node
    <3>1. n - offset \in 0 .. size - 1 /\ m(n - offset) = n
      BY <2>1 DEF MappedId
    <3> QED BY <3>1
  <2>2. CASE ~(n - offset < other_merge_node)
    <3>1. n - offset + 1 \in 0 .. size - 1 /\ m(n - offset + 1) = n
      BY <2>2 DEF MappedId
    <3> QED BY <3>1
  <2> QED BY <2>1, <2>2
<1> HIDE DEF m
<1>5. {m(i) : i \in 0 .. size - 1} = {merge_node} \cup offset .. offset + size - 2
  BY <1>2, <1>3, <1>4
<1> QED BY <1>1, <1>5 DEF m
-----------------------------------------------------------------------------
\* Steps that leave what the stack says alone.

LEMMA NodesGrow ==
  ASSUME Typed, count' \in Nat \ {0}, count <= count'
  PROVE  Nodes \X Nodes \subseteq Nodes' \X Nodes'
<1>1. count \in Nat /\ count' \in Nat /\ count <= count'
  BY DEF Typed, TypeOK
<1>2. \A c, d \in Nat : c <= d => 0 .. c - 1 \subseteq 0 .. d - 1
  OBVIOUS
<1>3. 0 .. count - 1 \subseteq 0 .. count' - 1
  BY ONLY <1>1, <1>2
<1>4. Nodes \subseteq Nodes'
  BY ONLY <1>3 DEF Nodes
<1> QED BY ONLY <1>4

LEMMA CreateNodeIInv ==
  ASSUME IInv, CreateNode
  PROVE  IInv'
<1>1. count' \in Nat \ {0} /\ count <= count'
  BY DEF CreateNode, IInv, Typed, TypeOK
<1>2. Nodes \X Nodes \subseteq Nodes' \X Nodes'
  BY <1>1, NodesGrow DEF IInv
<1>3. UNCHANGED <<edges, in_edges, updates_stack, ops, updates, at, observers,
                  view, record, rec>>
  BY DEF CreateNode, commit_vars, observer_vars
<1>4. Typed'
  <2>1. /\ edges' \subseteq Nodes' \X Nodes' /\ rec' \subseteq Nodes' \X Nodes'
        /\ view' \in [Observer -> SUBSET (Nodes' \X Nodes')]
    BY <1>2, <1>3 DEF IInv, Typed, TypeOK
  <2>2. /\ \A i \in DOMAIN updates_stack' : IsList(updates_stack[i])'
        /\ IsList(updates)'
    BY <1>2, <1>3 DEF IInv, Typed, TypeOK, IsList
  <2> QED BY <1>1, <1>3, <2>1, <2>2 DEF IInv, Typed, TypeOK
<1>5. \A o : /\ Awaits(o)' = Awaits(o) /\ Seen(o)' = Seen(o)
             /\ Attached(o)' = Attached(o)
  BY <1>3 DEF Awaits, Seen, Attached
<1> QED BY <1>3, <1>4, <1>5 DEF IInv, InEdgesConverse, Control, Agreement, JdInv, RecInv

\* The edges and the observers' knowledge stay, and whoever was waiting for the
\* list under way still is.
LEMMA SameNet ==
  ASSUME IInv,
         \A e : /\ Untouched(updates_stack', e) <=> Untouched(updates_stack, e)
                /\ Inserted(updates_stack', e) <=> Inserted(updates_stack, e)
                /\ Erased(updates_stack', e) <=> Erased(updates_stack, e),
         \A o \in {"analysis", "jd_manager"} : (Awaits(o)' <=> Awaits(o)),
         at' \in DOMAIN observers' => at \in DOMAIN observers,
         UNCHANGED <<edges, in_edges, updates, observer_vars>>
  PROVE  InEdgesConverse' /\ Agreement' /\ JdInv' /\ RecInv'
<1>1. UNCHANGED <<edges, in_edges, updates, observers, view, record, rec>>
  BY DEF observer_vars
<1>2. \A o : Attached(o)' = Attached(o)
  BY <1>1 DEF Attached
<1>3. Seen("jd_manager")' = Seen("jd_manager")
  BY <1>1 DEF Seen
<1>4. InEdgesConverse' /\ Agreement'
  BY <1>1 DEF IInv, InEdgesConverse, Agreement
<1>5. JdInv'
  BY <1>1, <1>2, <1>3 DEF IInv, JdInv
<1>6. RecInv'
  <2>1. RecInv /\ (Awaits("analysis")' <=> Awaits("analysis"))
    BY DEF IInv
  <2> QED BY <2>1, <1>1, <1>2 DEF RecInv
<1> QED BY <1>4, <1>5, <1>6

\* The types of what a change of the stack leaves behind.
LEMMA ScopeTyped ==
  ASSUME Typed, updates_stack' \in Seq(Lists), updates_stack' # <<>>,
         \A i \in DOMAIN updates_stack' : IsList(updates_stack'[i]),
         at' \in 0 .. Len(observers) + 1,
         UNCHANGED <<count, edges, ops, updates, observer_vars>>
  PROVE  Typed'
<1>1. UNCHANGED <<count, edges, ops, updates, observers, view, record, rec>>
  BY DEF observer_vars
<1>2. Nodes' = Nodes
  BY <1>1 DEF Nodes
<1>3. \A u : IsList(u)' <=> IsList(u')
  BY <1>2 DEF IsList
<1>4. \A i \in DOMAIN updates_stack' : IsList(updates_stack[i])'
  BY <1>2 DEF IsList
<1>5. IsList(updates)'
  BY <1>1, <1>2 DEF Typed, TypeOK, IsList
<1> QED BY <1>1, <1>2, <1>4, <1>5 DEF Typed, TypeOK

LEMMA PushTyped ==
  ASSUME Typed
  PROVE  \A i \in DOMAIN Append(updates_stack, <<>>) :
           IsList(Append(updates_stack, <<>>)[i])
<1> DEFINE n == Len(updates_stack)
           t == Append(updates_stack, <<>>)
<1>1. /\ n \in Nat /\ DOMAIN updates_stack = 1 .. n /\ DOMAIN t = 1 .. n + 1
      /\ t[n + 1] = <<>> /\ \A i \in 1 .. n : t[i] = updates_stack[i]
  BY EmptyTyped DEF Typed
<1> HIDE DEF n, t
<1>2. \A k \in 1 .. n + 1 : k \in 1 .. n \/ k = n + 1
  BY <1>1
<1>3. IsList(<<>>)
  BY EmptyTyped DEF IsList
<1>4. \A i \in DOMAIN t : IsList(t[i])
  BY <1>1, <1>2, <1>3 DEF Typed, TypeOK
<1> QED BY <1>4 DEF t

LEMMA PopTyped ==
  ASSUME Typed, Len(updates_stack) > 1
  PROVE  \A i \in DOMAIN Popped(updates_stack) : IsList(Popped(updates_stack)[i])
<1> DEFINE n == Len(updates_stack)
           t == Popped(updates_stack)
           c == Concat(updates_stack[n - 1], updates_stack[n])
<1>1. /\ n \in Nat /\ DOMAIN updates_stack = 1 .. n
      /\ n \in 1 .. n /\ n - 1 \in 1 .. n
      /\ \A i \in 1 .. n - 1 : i \in 1 .. n
  BY DEF Typed
<1>2. t = [i \in 1 .. n - 1 |-> IF i = n - 1 THEN c ELSE updates_stack[i]]
  BY DEF Popped
<1>3. \A i \in 1 .. n : IsList(updates_stack[i])
  BY <1>1 DEF Typed, TypeOK
<1>4. IsList(updates_stack[n - 1]) /\ IsList(updates_stack[n])
  BY <1>1, <1>3
<1>5. IsList(c)
  BY <1>4 DEF IsList, Concat
<1> HIDE DEF n, t, c
<1>6. \A i \in DOMAIN t : IsList(t[i])
  BY <1>1, <1>2, <1>3, <1>5
<1> QED BY <1>6 DEF t

-----------------------------------------------------------------------------
\* One lemma per action.

LEMMA UpdateEdgeIInv == ASSUME IInv, UpdateEdge PROVE IInv'
<1>1. PICK from \in Nodes, to \in Nodes :
        /\ edges' = edges \cup {<<from, to>>}
        /\ in_edges' = in_edges \cup {<<from, to>>}
        /\ Note([x \in {<<from, to>>} |->
                   IF <<from, to>> \in edges THEN "UPDATE" ELSE "INSERT"])
  BY Zenon DEF UpdateEdge
<1> DEFINE e == <<from, to>>
           k == IF e \in edges THEN "UPDATE" ELSE "INSERT"
           u == [x \in {e} |-> k]
<1>2. e \in Nodes \X Nodes /\ k \in Kind /\ k # "ERASE"
  BY DEF Kind
<1>3. edges' = edges \cup {e} /\ in_edges' = in_edges \cup {e} /\ Note(u)
  BY <1>1
<1>4. UNCHANGED <<commit_vars, observer_vars>> /\ count' = count /\ ops' = ops + 1
  BY DEF UpdateEdge
<1> HIDE DEF e, k
<1>5. u \in Lists /\ DOMAIN u = {e} /\ u[e] = k
  BY <1>2, SingleTyped, NodesInNat DEF IInv
<1> HIDE DEF u
<1>6. /\ updates_stack' \in Seq(Lists) /\ updates_stack' # <<>>
      /\ InEdgesConverse' /\ Control' /\ Agreement' /\ JdInv' /\ RecInv'
  <2>1. /\ \A x \in DOMAIN u : u[x] = "ERASE" <=> x \notin edges'
        /\ \A x : x \notin DOMAIN u => (x \in edges' <=> x \in edges)
        /\ in_edges' = edges'
    BY <1>2, <1>3, <1>5 DEF IInv, InEdgesConverse
  <2> QED BY <2>1, <1>3, <1>4, <1>5, NoteIInv
<1>7. Typed'
  <2>1. Typed /\ count' \in Nat \ {0} /\ count <= count' /\ ops' \in Nat
    BY <1>4 DEF IInv, Typed, TypeOK
  <2>2. Nodes' = Nodes
    BY <1>4 DEF Nodes
  <2>3. edges \subseteq Nodes \X Nodes
    BY <2>1 DEF Typed, TypeOK
  <2>4. DOMAIN u \subseteq Nodes' \X Nodes' /\ edges' \subseteq Nodes' \X Nodes'
    BY <2>2, <2>3, <1>2, <1>3, <1>5
  <2> QED BY <2>1, <2>4, <1>3, <1>4, <1>5, <1>6, NoteTyped
<1> QED BY <1>6, <1>7 DEF IInv

LEMMA EraseEdgeIInv == ASSUME IInv, EraseEdge PROVE IInv'
<1>1. PICK e \in edges : Erase(e)
  BY DEF EraseEdge
<1> DEFINE u == [x \in {e} |-> "ERASE"]
<1>2. e \in Nodes \X Nodes /\ "ERASE" \in Kind
  BY DEF IInv, Typed, TypeOK, Kind
<1>3. edges' = edges \ {e} /\ in_edges' = in_edges \ {e} /\ Note(u)
  BY <1>1 DEF Erase
<1>4. UNCHANGED <<commit_vars, observer_vars>> /\ count' = count /\ ops' = ops + 1
  BY DEF EraseEdge
<1>5. u \in Lists /\ DOMAIN u = {e} /\ u[e] = "ERASE"
  BY <1>2, SingleTyped, NodesInNat DEF IInv
<1> HIDE DEF u
<1>6. /\ updates_stack' \in Seq(Lists) /\ updates_stack' # <<>>
      /\ InEdgesConverse' /\ Control' /\ Agreement' /\ JdInv' /\ RecInv'
  <2>1. /\ \A x \in DOMAIN u : u[x] = "ERASE" <=> x \notin edges'
        /\ \A x : x \notin DOMAIN u => (x \in edges' <=> x \in edges)
        /\ in_edges' = edges'
    BY <1>3, <1>5 DEF IInv, InEdgesConverse
  <2> QED BY <2>1, <1>3, <1>4, <1>5, NoteIInv
<1>7. Typed'
  <2>1. Typed /\ count' \in Nat \ {0} /\ count <= count' /\ ops' \in Nat
    BY <1>4 DEF IInv, Typed, TypeOK
  <2>2. Nodes' = Nodes
    BY <1>4 DEF Nodes
  <2>3. edges \subseteq Nodes \X Nodes
    BY <2>1 DEF Typed, TypeOK
  <2>4. DOMAIN u \subseteq Nodes' \X Nodes' /\ edges' \subseteq Nodes' \X Nodes'
    BY <2>2, <2>3, <1>2, <1>3, <1>5
  <2> QED BY <2>1, <2>4, <1>3, <1>4, <1>5, <1>6, NoteTyped
<1> QED BY <1>6, <1>7 DEF IInv

LEMMA ReplaceNodePayloadIInv == ASSUME IInv, ReplaceNodePayload PROVE IInv'
<1>1. PICK n \in Nodes : Note([e \in {e \in in_edges : e[2] = n} |-> "UPDATE"])
  BY DEF ReplaceNodePayload
<1> DEFINE S == {e \in in_edges : e[2] = n}
           u == [e \in S |-> "UPDATE"]
<1>2. S \subseteq edges /\ edges \subseteq Nodes \X Nodes /\ "UPDATE" \in Kind
  BY DEF IInv, InEdgesConverse, Typed, TypeOK, Kind
<1>3. Note(u)
  BY <1>1
<1>4. /\ UNCHANGED <<commit_vars, observer_vars>> /\ count' = count
      /\ ops' = ops + 1 /\ UNCHANGED <<edges, in_edges>>
  BY DEF ReplaceNodePayload
<1> HIDE DEF S
<1>5. u \in Lists /\ DOMAIN u = S /\ \A x \in S : u[x] # "ERASE"
  BY <1>2, SingleTyped, NodesInNat DEF IInv
<1> HIDE DEF u
<1>6. /\ updates_stack' \in Seq(Lists) /\ updates_stack' # <<>>
      /\ InEdgesConverse' /\ Control' /\ Agreement' /\ JdInv' /\ RecInv'
  <2>1. /\ \A x \in DOMAIN u : u[x] = "ERASE" <=> x \notin edges'
        /\ \A x : x \notin DOMAIN u => (x \in edges' <=> x \in edges)
        /\ in_edges' = edges'
    BY <1>2, <1>4, <1>5 DEF IInv, InEdgesConverse
  <2> QED BY <2>1, <1>3, <1>4, <1>5, NoteIInv
<1>7. Typed'
  <2>1. Typed /\ count' \in Nat \ {0} /\ count <= count' /\ ops' \in Nat
    BY <1>4 DEF IInv, Typed, TypeOK
  <2>2. Nodes' = Nodes
    BY <1>4 DEF Nodes
  <2>3. DOMAIN u \subseteq Nodes' \X Nodes' /\ edges' \subseteq Nodes' \X Nodes'
    BY <2>2, <1>2, <1>4, <1>5
  <2> QED BY <2>1, <2>3, <1>3, <1>4, <1>5, <1>6, NoteTyped
<1> QED BY <1>6, <1>7 DEF IInv

LEMMA MergeIInv == ASSUME IInv, Merge PROVE IInv'
<1>1. PICK other \in Graphs, merge_node \in Nodes :
      \E other_merge_node \in 0 .. other.size - 1 :
       LET mapped_id(id) == MappedId(count, merge_node, other_merge_node, id)
           copied == {<<mapped_id(e[1]), mapped_id(e[2])>> : e \in other.edges}
       IN /\ count' = count + other.size - 1
          /\ count' <= MaxNodes
          /\ edges' = edges \cup copied
          /\ in_edges' = in_edges \cup copied
          /\ Note([e \in copied |-> "INSERT"])
  BY Zenon DEF Merge
<1>2. PICK other_merge_node \in 0 .. other.size - 1 :
       LET mapped_id(id) == MappedId(count, merge_node, other_merge_node, id)
           copied == {<<mapped_id(e[1]), mapped_id(e[2])>> : e \in other.edges}
       IN /\ count' = count + other.size - 1
          /\ count' <= MaxNodes
          /\ edges' = edges \cup copied
          /\ in_edges' = in_edges \cup copied
          /\ Note([e \in copied |-> "INSERT"])
  BY <1>1, Zenon
<1> DEFINE m(id) == MappedId(count, merge_node, other_merge_node, id)
           copied == {<<m(e[1]), m(e[2])>> : e \in other.edges}
           u == [e \in copied |-> "INSERT"]
<1>3. /\ count' = count + other.size - 1 /\ Note(u)
      /\ edges' = edges \cup copied /\ in_edges' = in_edges \cup copied
  BY <1>2, Zenon
<1>4. UNCHANGED <<commit_vars, observer_vars>> /\ ops' = ops + 1
  BY DEF Merge
<1>5. /\ count \in Nat \ {0} /\ merge_node \in 0 .. count - 1
      /\ other.size \in Nat \ {0} /\ other_merge_node \in 0 .. other.size - 1
      /\ other.edges \subseteq (0 .. other.size - 1) \X (0 .. other.size - 1)
  BY <1>1, <1>2, GraphsAssumption DEF IInv, Typed, TypeOK, Nodes
<1>6. /\ count' \in Nat \ {0} /\ count <= count'
      /\ count' - 1 = count + other.size - 2
  <2> DEFINE size == other.size
  <2>1. size \in Nat \ {0} /\ count \in Nat \ {0} /\ count' = count + size - 1
    BY <1>3, <1>5
  <2> HIDE DEF size
  <2>2. /\ count' \in Nat \ {0} /\ count <= count'
        /\ count' - 1 = count + size - 2
    BY ONLY <2>1
  <2> QED BY <2>2 DEF size
<1>7. \A id \in 0 .. other.size - 1 : m(id) \in Nodes'
  BY <1>5, <1>6, MappedIdTyped DEF Nodes
<1> HIDE DEF m
<1>8. copied \subseteq Nodes' \X Nodes'
  BY <1>5, <1>7
<1>9. Nodes' \X Nodes' \in SUBSET (Nat \X Nat)
  <2>1. Nodes' \subseteq Nat
    BY DEF Nodes
  <2> QED BY <2>1
<1> HIDE DEF copied
<1>10. u \in Lists /\ DOMAIN u = copied /\ \A x \in copied : u[x] # "ERASE"
  <2>1. copied \in SUBSET (Nat \X Nat) /\ "INSERT" \in Kind
    BY <1>8, <1>9 DEF Kind
  <2> QED BY <2>1, SingleTyped
<1> HIDE DEF u
<1>11. /\ updates_stack' \in Seq(Lists) /\ updates_stack' # <<>>
       /\ InEdgesConverse' /\ Control' /\ Agreement' /\ JdInv' /\ RecInv'
  <2>1. /\ \A x \in DOMAIN u : u[x] = "ERASE" <=> x \notin edges'
        /\ \A x : x \notin DOMAIN u => (x \in edges' <=> x \in edges)
        /\ in_edges' = edges'
    BY <1>3, <1>10 DEF IInv, InEdgesConverse
  <2> QED BY <2>1, <1>3, <1>4, <1>10, NoteIInv
<1>12. Typed'
  <2>1. Typed /\ ops' \in Nat /\ edges \subseteq Nodes \X Nodes
    BY <1>4 DEF IInv, Typed, TypeOK
  <2>2. DOMAIN u \subseteq Nodes' \X Nodes' /\ edges' \subseteq Nodes' \X Nodes'
    BY <2>1, <1>3, <1>6, <1>8, <1>10, NodesGrow
  <2> QED BY <2>1, <2>2, <1>3, <1>4, <1>6, <1>10, <1>11, NoteTyped
<1> QED BY <1>11, <1>12 DEF IInv

LEMMA NobodyAwaits ==
  ASSUME NEW a, a = 0 \/ a = Len(observers) + 1, observers \in Seq(Observer)
  PROVE  ~(\E i \in DOMAIN observers : a >= 1 /\ i >= a)
<1>1. Len(observers) \in Nat /\ DOMAIN observers = 1 .. Len(observers)
  OBVIOUS
<1> QED BY <1>1

LEMMA PushUpdatesIInv == ASSUME IInv, PushUpdates PROVE IInv'
<1>1. /\ UNCHANGED <<count, edges, in_edges, ops, updates, at, observer_vars>>
      /\ updates_stack' = Append(updates_stack, <<>>) /\ at = 0
  BY DEF PushUpdates, commit_vars, Deciding
<1>2. Typed /\ updates_stack \in Seq(Lists) /\ observers \in Seq(Observer)
  BY DEF IInv, Typed, TypeOK
<1>3. updates_stack' \in Seq(Lists) /\ updates_stack' # <<>>
  BY <1>1, <1>2, PushNet
<1>4. Typed'
  <2>1. \A i \in DOMAIN updates_stack' : IsList(updates_stack'[i])
    BY <1>1, <1>2, PushTyped
  <2>2. at' \in 0 .. Len(observers) + 1
    BY <1>1, <1>2
  <2> QED BY <2>1, <2>2, <1>1, <1>2, <1>3, ScopeTyped
<1>5. InEdgesConverse' /\ Agreement' /\ JdInv' /\ RecInv'
  <2>1. \A o \in {"analysis", "jd_manager"} : (Awaits(o)' <=> Awaits(o))
    BY <1>1 DEF Awaits, observer_vars
  <2>2. \A e : /\ Untouched(updates_stack', e) <=> Untouched(updates_stack, e)
               /\ Inserted(updates_stack', e) <=> Inserted(updates_stack, e)
               /\ Erased(updates_stack', e) <=> Erased(updates_stack, e)
    BY <1>1, <1>2, PushNet
  <2>3. at' \in DOMAIN observers' => at \in DOMAIN observers
    BY <1>1 DEF observer_vars
  <2> QED BY <2>1, <2>2, <2>3, <1>1, SameNet
<1>6. Control'
  <2>1. Len(observers) \in Nat /\ DOMAIN observers = 1 .. Len(observers)
    BY <1>2
  <2>2. at # Len(observers) + 1 /\ at \notin DOMAIN observers
    BY <2>1, <1>1
  <2> QED BY <2>2, <1>1 DEF IInv, Control, Attached, observer_vars
<1> QED BY <1>4, <1>5, <1>6 DEF IInv

LEMMA PopUpdatesIInv == ASSUME IInv, PopUpdates PROVE IInv'
<1>1. /\ UNCHANGED <<count, edges, in_edges, ops, updates, at, observer_vars>>
      /\ updates_stack' = Popped(updates_stack) /\ at = 0
      /\ Len(updates_stack) > 1
  BY DEF PopUpdates, commit_vars, Deciding
<1>2. Typed /\ updates_stack \in Seq(Lists) /\ observers \in Seq(Observer)
  BY DEF IInv, Typed, TypeOK
<1>3. updates_stack' \in Seq(Lists) /\ updates_stack' # <<>>
  BY <1>1, <1>2, PopNet
<1>4. Typed'
  <2>1. \A i \in DOMAIN updates_stack' : IsList(updates_stack'[i])
    BY <1>1, <1>2, PopTyped
  <2>2. at' \in 0 .. Len(observers) + 1
    BY <1>1, <1>2
  <2> QED BY <2>1, <2>2, <1>1, <1>2, <1>3, ScopeTyped
<1>5. InEdgesConverse' /\ Agreement' /\ JdInv' /\ RecInv'
  <2>1. \A o \in {"analysis", "jd_manager"} : (Awaits(o)' <=> Awaits(o))
    BY <1>1 DEF Awaits, observer_vars
  <2>2. \A e : /\ Untouched(updates_stack', e) <=> Untouched(updates_stack, e)
               /\ Inserted(updates_stack', e) <=> Inserted(updates_stack, e)
               /\ Erased(updates_stack', e) <=> Erased(updates_stack, e)
    BY <1>1, <1>2, PopNet
  <2>3. at' \in DOMAIN observers' => at \in DOMAIN observers
    BY <1>1 DEF observer_vars
  <2> QED BY <2>1, <2>2, <2>3, <1>1, SameNet
<1>6. Control'
  <2>1. Len(observers) \in Nat /\ DOMAIN observers = 1 .. Len(observers)
    BY <1>2
  <2>2. at # Len(observers) + 1 /\ at \notin DOMAIN observers
    BY <2>1, <1>1
  <2> QED BY <2>2, <1>1 DEF IInv, Control, Attached, observer_vars
<1> QED BY <1>4, <1>5, <1>6 DEF IInv

\* A stack of one empty list.
LEMMA Cleared ==
  /\ <<(<<>>)>> \in Seq(Lists) /\ <<(<<>>)>> # <<>> /\ Len(<<(<<>>)>>) = 1
  /\ \A e : /\ Untouched(<<(<<>>)>>, e)
            /\ ~Inserted(<<(<<>>)>>, e) /\ ~Erased(<<(<<>>)>>, e)
  /\ \A i \in DOMAIN <<(<<>>)>> : IsList(<<(<<>>)>>[i])
<1> DEFINE s == <<(<<>>)>>
<1>1. s \in Seq(Lists) /\ s # <<>> /\ Len(s) = 1 /\ DOMAIN s = {1} /\ s[1] = <<>>
  BY EmptyTyped
<1> HIDE DEF s
<1>2. \A e : Untouched(s, e)
  BY <1>1, EmptyTyped DEF Untouched
<1>3. \A e : ~Inserted(s, e) /\ ~Erased(s, e)
  BY <1>1, <1>2, Exclusive
<1>4. \A i \in DOMAIN s : IsList(s[i])
  BY <1>1, EmptyTyped DEF IsList
<1> QED BY <1>1, <1>2, <1>3, <1>4 DEF s

LEMMA ClearUpdatesIInv == ASSUME IInv, ClearUpdates PROVE IInv'
<1>1. /\ UNCHANGED <<count, edges, in_edges, ops, updates, at, observer_vars>>
      /\ updates_stack' = <<(<<>>)>> /\ at = 0
      /\ ~Attached("analysis") /\ ~Attached("jd_manager")
  BY DEF ClearUpdates, commit_vars, Deciding
<1>2. Typed /\ observers \in Seq(Observer)
  BY DEF IInv, Typed, TypeOK
<1>3. Typed'
  <2>1. at' \in 0 .. Len(observers) + 1
    BY <1>1, <1>2
  <2> QED BY <2>1, <1>1, <1>2, Cleared, ScopeTyped
<1>4. at # Len(observers) + 1 /\ at \notin DOMAIN observers
  <2>1. Len(observers) \in Nat /\ DOMAIN observers = 1 .. Len(observers)
    BY <1>2
  <2> QED BY <2>1, <1>1
<1>5. \A o : Attached(o)' = Attached(o)
  BY <1>1 DEF Attached, observer_vars
<1>6. Agreement'
  BY <1>1, <1>4, Cleared DEF Agreement, observer_vars
<1>7. Control' /\ JdInv' /\ RecInv' /\ InEdgesConverse'
  BY <1>1, <1>4, <1>5
     DEF IInv, Control, JdInv, RecInv, InEdgesConverse, observer_vars
<1> QED BY <1>3, <1>6, <1>7 DEF IInv

LEMMA CommitIInv == ASSUME IInv, Commit PROVE IInv'
<1>1. /\ UNCHANGED <<count, edges, in_edges, ops, updates, updates_stack, observer_vars>>
      /\ at = 0 /\ at' = Len(observers) + 1 /\ Len(updates_stack) = 1
      /\ Attached("analysis") => record
  BY DEF Commit, graph_vars, Deciding
<1>2. /\ Typed /\ observers \in Seq(Observer) /\ updates_stack \in Seq(Lists)
      /\ updates_stack # <<>> /\ \A i \in DOMAIN updates_stack : IsList(updates_stack[i])
  BY DEF IInv, Typed, TypeOK
<1>3. at' \in 0 .. Len(observers) + 1 /\ at' \notin DOMAIN observers
  <2>1. Len(observers) \in Nat /\ DOMAIN observers = 1 .. Len(observers)
    BY <1>2
  <2> QED BY <2>1, <1>1
<1>4. Typed'
  BY <1>1, <1>2, <1>3, ScopeTyped
<1>5. \A o : (Awaits(o)' <=> Awaits(o))
  <2>1. observers' = observers
    BY <1>1 DEF observer_vars
  <2>2. \A o : ~Awaits(o) /\ ~Awaits(o)'
    BY <2>1, <1>1, <1>2, NobodyAwaits DEF Awaits
  <2> QED BY <2>2
<1>6. InEdgesConverse' /\ Agreement' /\ JdInv' /\ RecInv'
  <2>1. /\ at' \in DOMAIN observers' => at \in DOMAIN observers
        /\ UNCHANGED <<edges, in_edges, updates, observer_vars>>
    BY <1>1, <1>3 DEF observer_vars
  <2>2. \A e : /\ Untouched(updates_stack', e) <=> Untouched(updates_stack, e)
               /\ Inserted(updates_stack', e) <=> Inserted(updates_stack, e)
               /\ Erased(updates_stack', e) <=> Erased(updates_stack, e)
    BY <1>1
  <2> QED BY <2>1, <2>2, <1>5, SameNet
<1>7. Control'
  BY <1>1, <1>3 DEF IInv, Control, Attached, observer_vars
<1> QED BY <1>4, <1>6, <1>7 DEF IInv

LEMMA DecoderBeginsIInv == ASSUME IInv, DecoderBegins PROVE IInv'
<1>1. /\ UNCHANGED <<count, edges, in_edges, ops, updates, at, observer_vars>>
      /\ updates_stack' = Append(updates_stack, <<>>)
      /\ at \in DOMAIN observers /\ observers[at] = "decoder"
      /\ Len(updates_stack) = 1
  BY DEF DecoderBegins, commit_vars
<1>2. Typed /\ updates_stack \in Seq(Lists) /\ observers \in Seq(Observer)
      /\ at \in 0 .. Len(observers) + 1
  BY DEF IInv, Typed, TypeOK
<1>3. updates_stack' \in Seq(Lists) /\ updates_stack' # <<>> /\ Len(updates_stack') = 2
  <2>1. updates_stack' \in Seq(Lists) /\ Len(updates_stack') = Len(updates_stack) + 1
    BY <1>1, <1>2, PushNet
  <2>2. Len(updates_stack') = 2
    BY ONLY <2>1, <1>1
  <2>3. updates_stack' # <<>>
    BY <1>1, <1>2, PushNet
  <2> QED BY <2>1, <2>2, <2>3
<1>4. Typed'
  <2>1. \A i \in DOMAIN updates_stack' : IsList(updates_stack'[i])
    BY <1>1, <1>2, PushTyped
  <2> QED BY <2>1, <1>1, <1>2, <1>3, ScopeTyped
<1>5. InEdgesConverse' /\ Agreement' /\ JdInv' /\ RecInv'
  <2>1. \A o \in {"analysis", "jd_manager"} : (Awaits(o)' <=> Awaits(o))
    BY <1>1 DEF Awaits, observer_vars
  <2>2. \A e : /\ Untouched(updates_stack', e) <=> Untouched(updates_stack, e)
               /\ Inserted(updates_stack', e) <=> Inserted(updates_stack, e)
               /\ Erased(updates_stack', e) <=> Erased(updates_stack, e)
    BY <1>1, <1>2, PushNet
  <2>3. at' \in DOMAIN observers' => at \in DOMAIN observers
    BY <1>1 DEF observer_vars
  <2> QED BY <2>1, <2>2, <2>3, <1>1, SameNet
<1>6. Control'
  <2>1. Len(observers) \in Nat /\ DOMAIN observers = 1 .. Len(observers)
    BY <1>2
  <2>2. at # Len(observers) + 1
    BY <2>1, <1>1
  <2> QED BY <2>2, <1>1, <1>3 DEF IInv, Control, Attached, observer_vars
<1> QED BY <1>4, <1>5, <1>6 DEF IInv

\* The observer whose turn it was has read the list; the others have not.
LEMMA TurnPasses ==
  ASSUME IInv, NEW p, at \in DOMAIN observers, observers[at] = p, at' = at + 1,
         UNCHANGED observers
  PROVE  /\ at' \in 1 .. Len(observers) + 1
         /\ \A o : o # p => (Awaits(o)' <=> Awaits(o))
         /\ Awaits(p) /\ ~Awaits(p)'
<1>1. /\ observers \in Seq(Observer) /\ Len(observers) \in Nat
      /\ DOMAIN observers = 1 .. Len(observers)
      /\ \A i, j \in DOMAIN observers : observers[i] = observers[j] => i = j
  BY DEF IInv, Typed, TypeOK
<1>2. /\ at \in Nat /\ at >= 1 /\ at + 1 >= 1
      /\ \A i \in DOMAIN observers : i >= at + 1 <=> i >= at /\ i # at
      /\ at + 1 \in 1 .. Len(observers) + 1
  BY <1>1
<1>3. Awaits(p)
  BY <1>2 DEF Awaits
<1>4. \A i \in DOMAIN observers : observers[i] = p <=> i = at
  BY <1>1
<1>5. \A o : Awaits(o)' <=> \E i \in DOMAIN observers : observers[i] = o /\ i >= at + 1
  BY <1>2 DEF Awaits
<1>6. \A o : Awaits(o) <=> \E i \in DOMAIN observers : observers[i] = o /\ i >= at
  BY <1>2 DEF Awaits
<1>7. ~Awaits(p)'
  BY <1>2, <1>4, <1>5
<1>8. \A o : o # p => (Awaits(o)' <=> Awaits(o))
  BY <1>2, <1>4, <1>5, <1>6
<1> QED BY <1>2, <1>3, <1>7, <1>8

LEMMA DecoderEndsIInv == ASSUME IInv, DecoderEnds PROVE IInv'
<1>1. /\ UNCHANGED <<count, edges, in_edges, ops, updates, observer_vars>>
      /\ updates_stack' = Popped(updates_stack) /\ at' = at + 1
      /\ at \in DOMAIN observers /\ observers[at] = "decoder"
      /\ Len(updates_stack) = 2
  BY DEF DecoderEnds, Decoding
<1>2. Typed /\ updates_stack \in Seq(Lists) /\ observers \in Seq(Observer)
      /\ at \in 0 .. Len(observers) + 1
  BY DEF IInv, Typed, TypeOK
<1>8. Len(updates_stack) > 1
  BY ONLY <1>1
<1>3. updates_stack' \in Seq(Lists) /\ updates_stack' # <<>> /\ Len(updates_stack') = 1
  <2>1. updates_stack' \in Seq(Lists) /\ Len(updates_stack') = Len(updates_stack) - 1
    BY <1>1, <1>2, <1>8, PopNet
  <2>2. Len(updates_stack') = 1
    BY ONLY <2>1, <1>1
  <2>3. updates_stack' # <<>>
    <3>1. \A t \in Seq(Lists) : Len(t) = 1 => t # <<>>
      OBVIOUS
    <3> QED BY ONLY <3>1, <2>1, <2>2
  <2> QED BY <2>1, <2>2, <2>3
<1>4. /\ at' \in 1 .. Len(observers) + 1
      /\ \A o \in {"analysis", "jd_manager"} : (Awaits(o)' <=> Awaits(o))
  BY <1>1, TurnPasses DEF observer_vars
<1>5. Typed'
  <2>1. \A i \in DOMAIN updates_stack' : IsList(updates_stack'[i])
    BY <1>1, <1>2, <1>8, PopTyped
  <2>2. at' \in 0 .. Len(observers) + 1
    BY <1>2, <1>4
  <2> QED BY <2>1, <2>2, <1>1, <1>2, <1>3, ScopeTyped
<1>6. InEdgesConverse' /\ Agreement' /\ JdInv' /\ RecInv'
  <2>1. \A e : /\ Untouched(updates_stack', e) <=> Untouched(updates_stack, e)
               /\ Inserted(updates_stack', e) <=> Inserted(updates_stack, e)
               /\ Erased(updates_stack', e) <=> Erased(updates_stack, e)
    BY <1>1, <1>2, <1>8, PopNet
  <2> QED BY <2>1, <1>1, <1>4, SameNet
<1>7. Control'
  <2>1. at # 0
    BY <1>1, <1>2
  <2> QED BY <2>1, <1>1, <1>3 DEF IInv, Control, Attached, observer_vars
<1> QED BY <1>5, <1>6, <1>7 DEF IInv

LEMMA NextUpdatesIInv == ASSUME IInv, NextUpdates PROVE IInv'
<1>1. /\ UNCHANGED <<count, edges, in_edges, ops, observers, view, record, rec>>
      /\ at = Len(observers) + 1 /\ updates' = updates_stack[1]
      /\ updates_stack' = <<(<<>>)>>
      /\ at' = IF updates_stack[1] = <<>> THEN 0 ELSE 1
  BY DEF NextUpdates, observer_vars
<1>2. /\ Typed /\ updates_stack \in Seq(Lists) /\ observers \in Seq(Observer)
      /\ Len(updates_stack) = 1 /\ Len(observers) \in Nat
      /\ DOMAIN observers = 1 .. Len(observers)
  BY <1>1 DEF IInv, Typed, TypeOK, Control
<1>3. DOMAIN updates_stack = {1} /\ updates' \in Lists
  <2>1. DOMAIN updates_stack = {1}
    BY <1>2
  <2>2. updates_stack[1] \in Lists
    <3>1. \A t \in Seq(Lists) : Len(t) = 1 => t[1] \in Lists
      OBVIOUS
    <3> QED BY ONLY <3>1, <1>2
  <2> QED BY <2>1, <2>2, <1>1
<1>4. at' \in 0 .. Len(observers) + 1
  BY <1>1, <1>2
<1>5. Typed'
  <2>1. Nodes' = Nodes
    BY <1>1 DEF Nodes
  <2>2. IsList(updates)'
    BY <1>1, <1>3, <2>1 DEF IInv, Typed, TypeOK, IsList
  <2>3. \A i \in DOMAIN updates_stack' : IsList(updates_stack[i])'
    BY <1>1, <2>1, Cleared DEF IsList
  <2>4. updates_stack' \in Seq(Lists) /\ updates_stack' # <<>>
    BY <1>1, Cleared
  <2> QED BY <1>1, <1>3, <1>4, <2>1, <2>2, <2>3, <2>4 DEF IInv, Typed, TypeOK
<1>6. \A e : /\ Untouched(updates_stack, e) <=> e \notin DOMAIN updates'
             /\ Inserted(updates_stack, e) <=> e \in DOMAIN updates' /\ updates'[e] # "ERASE"
             /\ Erased(updates_stack, e) <=> e \in DOMAIN updates' /\ updates'[e] = "ERASE"
  BY <1>1, <1>3 DEF Untouched, Inserted, Erased, Topmost
<1>7. \A e : /\ Untouched(updates_stack', e)
             /\ ~Inserted(updates_stack', e) /\ ~Erased(updates_stack', e)
  BY <1>1, Cleared
<1>8. /\ \A o : Attached(o)' <=> Attached(o)
      /\ \A o : ~Awaits(o)
      /\ \A o : Attached(o) /\ at' = 1 => Awaits(o)'
      /\ \A o : at' = 0 => ~Awaits(o)'
  <2>1. \A o : ~Awaits(o)
    BY <1>1, <1>2, NobodyAwaits DEF Awaits
  <2>2. \A o : Attached(o) /\ at' = 1 => Awaits(o)'
    BY <1>1, <1>2 DEF Awaits, Attached
  <2>3. \A o : at' = 0 => ~Awaits(o)'
    BY <1>1, <1>2 DEF Awaits
  <2> QED BY <2>1, <2>2, <2>3, <1>1 DEF Attached
<1>9. at' = 0 => DOMAIN updates' = {}
  BY <1>1, EmptyTyped
<1>10. Agreement'
  BY <1>1, <1>6, <1>7 DEF IInv, Agreement
<1>11. JdInv'
  <2> SUFFICES ASSUME Attached("jd_manager"), NEW e
               PROVE  e \in edges <=> e \in Seen("jd_manager")'
    BY <1>1, <1>7, <1>8 DEF JdInv
  <2>1. e \in edges <=> \/ Inserted(updates_stack, e)
                        \/ Untouched(updates_stack, e) /\ e \in view["jd_manager"]
    BY <1>8 DEF IInv, JdInv, Seen
  <2>2. e \in Known(view["jd_manager"], updates') <=>
          IF e \in DOMAIN updates' THEN updates'[e] # "ERASE" ELSE e \in view["jd_manager"]
    BY DEF Known
  <2>3. CASE at' = 1
    <3>1. Seen("jd_manager")' = Known(view["jd_manager"], updates')
      BY <2>3, <1>1, <1>8 DEF Seen
    <3> QED BY <3>1, <2>1, <2>2, <1>6
  <2>4. CASE at' = 0
    <3>1. Seen("jd_manager")' = view["jd_manager"]
      BY <2>4, <1>1, <1>8 DEF Seen
    <3> QED BY <3>1, <2>1, <2>4, <1>6, <1>9
  <2> QED BY <2>3, <2>4, <1>1
<1>12. RecInv'
  <2> SUFFICES ASSUME Attached("analysis")
               PROVE  /\ \A e \in edges :
                           \/ e \in view["analysis"] \cup rec
                           \/ /\ Awaits("analysis")'
                              /\ e \in DOMAIN updates' /\ updates'[e] # "ERASE"
                      /\ \A e \in rec :
                           \/ e \in edges
                           \/ /\ Awaits("analysis")'
                              /\ e \in DOMAIN updates' /\ updates'[e] = "ERASE"
    BY <1>1, <1>7, <1>8 DEF RecInv
  <2>1. /\ \A e \in edges : e \in view["analysis"] \cup rec \/ Inserted(updates_stack, e)
        /\ \A e \in rec : e \in edges \/ Erased(updates_stack, e)
    BY <1>8 DEF IInv, RecInv
  <2>2. at' = 1 => Awaits("analysis")'
    BY <1>8
  <2> QED BY <2>1, <2>2, <1>1, <1>6, <1>9
<1>13. Control'
  <2>1. Len(updates_stack') = 1
    BY <1>1, Cleared
  <2>2. at # 0
    BY <1>1, <1>2
  <2> QED BY <2>1, <2>2, <1>1 DEF IInv, Control, Attached
<1> QED BY <1>1, <1>5, <1>10, <1>11, <1>12, <1>13 DEF IInv, InEdgesConverse

LEMMA KnownTyped ==
  ASSUME Typed, NEW D, D \subseteq Nodes \X Nodes
  PROVE  Known(D, updates) \subseteq Nodes \X Nodes
BY DEF Typed, TypeOK, IsList, Known

LEMMA NotifyJdManagerIInv == ASSUME IInv, NotifyJdManager PROVE IInv'
<1>1. /\ UNCHANGED <<count, edges, in_edges, ops, updates_stack, updates, observers,
                     record, rec>>
      /\ at \in DOMAIN observers /\ observers[at] = "jd_manager" /\ at' = at + 1
      /\ view' = [view EXCEPT !["jd_manager"] = Known(@, updates)]
  BY DEF NotifyJdManager, graph_vars
<1>2. /\ at' \in 1 .. Len(observers) + 1
      /\ Awaits("jd_manager") /\ ~Awaits("jd_manager")'
      /\ Awaits("analysis")' <=> Awaits("analysis")
  BY <1>1, TurnPasses
<1>3. Typed /\ view \in [Observer -> SUBSET (Nodes \X Nodes)] /\ Len(observers) \in Nat
      /\ at # 0
  BY <1>1 DEF IInv, Typed, TypeOK
<1>4. /\ view'["analysis"] = view["analysis"]
      /\ view'["jd_manager"] = Known(view["jd_manager"], updates)
      /\ view' \in [Observer -> SUBSET (Nodes \X Nodes)]
  BY <1>1, <1>3, KnownTyped DEF Observer
<1>5. Seen("jd_manager")' = Seen("jd_manager")
  BY <1>2, <1>4 DEF Seen
<1>6. Typed'
  <2>1. at' \in 0 .. Len(observers) + 1
    BY <1>2, <1>3
  <2>2. Nodes' = Nodes
    BY <1>1 DEF Nodes
  <2>3. IsList(updates)' /\ \A i \in DOMAIN updates_stack' : IsList(updates_stack[i])'
    BY <1>1, <2>2 DEF IInv, Typed, TypeOK, IsList
  <2> QED BY <2>1, <2>2, <2>3, <1>1, <1>3, <1>4 DEF Typed, TypeOK
<1>7. \A o : Attached(o)' <=> Attached(o)
  BY <1>1 DEF Attached
<1>8. Agreement' /\ InEdgesConverse'
  BY <1>1 DEF IInv, Agreement, InEdgesConverse
<1>9. JdInv'
  BY <1>1, <1>5, <1>7 DEF IInv, JdInv
<1>10. RecInv'
  BY <1>1, <1>2, <1>4, <1>7 DEF IInv, RecInv
<1>11. Control'
  BY <1>1, <1>3 DEF IInv, Control, Attached
<1> QED BY <1>6, <1>8, <1>9, <1>10, <1>11 DEF IInv

LEMMA NotifyRecorderIInv == ASSUME IInv, NotifyRecorder PROVE IInv'
<1>1. /\ UNCHANGED <<count, edges, in_edges, ops, updates_stack, updates, observers,
                     record, view>>
      /\ at \in DOMAIN observers /\ observers[at] = "analysis" /\ at' = at + 1
      /\ rec' = IF record THEN Known(rec, updates) ELSE rec
  BY DEF NotifyRecorder, graph_vars
<1>2. /\ at' \in 1 .. Len(observers) + 1
      /\ Awaits("analysis") /\ ~Awaits("analysis")'
      /\ Awaits("jd_manager")' <=> Awaits("jd_manager")
  BY <1>1, TurnPasses
<1>3. Typed /\ rec \subseteq Nodes \X Nodes /\ Len(observers) \in Nat /\ at # 0
  BY <1>1 DEF IInv, Typed, TypeOK
<1>4. Attached("analysis") /\ record /\ rec' = Known(rec, updates)
  <2>1. Attached("analysis")
    BY <1>1 DEF Attached
  <2> QED BY <2>1, <1>1, <1>3 DEF IInv, Control
<1>5. Seen("jd_manager")' = Seen("jd_manager")
  BY <1>1, <1>2 DEF Seen
<1>6. Typed'
  <2>1. at' \in 0 .. Len(observers) + 1
    BY <1>2, <1>3
  <2>2. Nodes' = Nodes
    BY <1>1 DEF Nodes
  <2>3. IsList(updates)' /\ \A i \in DOMAIN updates_stack' : IsList(updates_stack[i])'
    BY <1>1, <2>2 DEF IInv, Typed, TypeOK, IsList
  <2>4. rec' \subseteq Nodes' \X Nodes'
    BY <2>2, <1>3, <1>4, KnownTyped
  <2> QED BY <2>1, <2>2, <2>3, <2>4, <1>1 DEF IInv, Typed, TypeOK
<1>7. \A o : Attached(o)' <=> Attached(o)
  BY <1>1 DEF Attached
<1>8. Agreement' /\ InEdgesConverse'
  BY <1>1 DEF IInv, Agreement, InEdgesConverse
<1>9. JdInv'
  BY <1>1, <1>5, <1>7 DEF IInv, JdInv
<1>10. RecInv'
  <2>1. /\ \A e \in edges :
             \/ e \in view["analysis"] \cup rec
             \/ Inserted(updates_stack, e)
             \/ /\ Untouched(updates_stack, e)
                /\ e \in DOMAIN updates /\ updates[e] # "ERASE"
        /\ \A e \in rec :
             \/ e \in edges
             \/ Erased(updates_stack, e)
             \/ /\ Untouched(updates_stack, e)
                /\ e \in DOMAIN updates /\ updates[e] = "ERASE"
    BY <1>4 DEF IInv, RecInv
  <2>2. /\ \A e \in DOMAIN updates :
             Untouched(updates_stack, e) => (updates[e] # "ERASE" <=> e \in edges)
        /\ \A e : e \in edges => Inserted(updates_stack, e) \/ Untouched(updates_stack, e)
        /\ \A e : e \notin edges => Erased(updates_stack, e) \/ Untouched(updates_stack, e)
    BY <1>1 DEF IInv, Agreement
  <2>3. \A e : e \in rec' <=> IF e \in DOMAIN updates THEN updates[e] # "ERASE"
                                                       ELSE e \in rec
    BY <1>4 DEF Known
  <2>4. \A e \in edges : e \in view["analysis"] \cup rec' \/ Inserted(updates_stack, e)
    BY <2>1, <2>2, <2>3
  <2>5. \A e \in rec' : e \in edges \/ Erased(updates_stack, e)
    BY <2>1, <2>2, <2>3
  <2> QED BY <2>4, <2>5, <1>1 DEF RecInv
<1>11. Control'
  BY <1>1, <1>3, <1>4 DEF IInv, Control, Attached
<1> QED BY <1>6, <1>8, <1>9, <1>10, <1>11 DEF IInv

LEMMA RegisterIInv == ASSUME IInv, NEW o \in Observer, Register(o) PROVE IInv'
<1>1. /\ UNCHANGED <<count, edges, in_edges, ops, updates_stack, updates, at,
                     record, rec>>
      /\ at = 0 /\ ~Attached(o)
      /\ observers' = Append(observers, o) /\ view' = [view EXCEPT ![o] = edges]
  BY DEF Register, graph_vars, commit_vars, Deciding
<1> DEFINE n == Len(observers)
<1>2. /\ Typed /\ observers \in Seq(Observer) /\ n \in Nat
      /\ DOMAIN observers = 1 .. n
      /\ view \in [Observer -> SUBSET (Nodes \X Nodes)]
      /\ edges \subseteq Nodes \X Nodes
      /\ \A i, j \in DOMAIN observers : observers[i] = observers[j] => i = j
  BY DEF IInv, Typed, TypeOK
<1>3. /\ observers' \in Seq(Observer) /\ Len(observers') = n + 1
      /\ DOMAIN observers' = 1 .. n + 1
      /\ observers'[n + 1] = o /\ \A i \in 1 .. n : observers'[i] = observers[i]
  BY <1>1, <1>2
<1> HIDE DEF n
<1>4. /\ \A i \in 1 .. n + 1 : i \in 1 .. n \/ i = n + 1
      /\ \A i \in 1 .. n : i \in 1 .. n + 1
      /\ n + 1 \in 1 .. n + 1
  BY <1>2
<1>5. \A p : Attached(p)' <=> Attached(p) \/ p = o
  BY <1>2, <1>3, <1>4 DEF Attached
<1>6. /\ view' \in [Observer -> SUBSET (Nodes \X Nodes)]
      /\ view'[o] = edges /\ \A p \in Observer : p # o => view'[p] = view[p]
  BY <1>1, <1>2
<1>7. Typed'
  <2>1. Nodes' = Nodes
    BY <1>1 DEF Nodes
  <2>2. IsList(updates)' /\ \A i \in DOMAIN updates_stack' : IsList(updates_stack[i])'
    BY <1>1, <2>1 DEF IInv, Typed, TypeOK, IsList
  <2>3. at' \in 0 .. Len(observers') + 1
    BY <1>1, <1>2, <1>3
  <2>4. \A i, j \in DOMAIN observers' : observers'[i] = observers'[j] => i = j
    <3>1. \A i \in 1 .. n : observers[i] # o
      BY <1>1, <1>2 DEF Attached
    <3> QED BY <3>1, <1>2, <1>3, <1>4
  <2> QED BY <2>1, <2>2, <2>3, <2>4, <1>1, <1>2, <1>3, <1>6 DEF Typed, TypeOK
<1>8. \A p : ~Awaits(p) /\ ~Awaits(p)'
  BY <1>1 DEF Awaits
<1>9. /\ "jd_manager" \in Observer /\ "analysis" \in Observer
      /\ Seen("jd_manager") = view["jd_manager"]
      /\ Seen("jd_manager")' = view'["jd_manager"]
  BY <1>8 DEF Observer, Seen
<1>10. \A e : /\ e \in edges => Inserted(updates_stack, e) \/ Untouched(updates_stack, e)
              /\ e \notin edges => Erased(updates_stack, e) \/ Untouched(updates_stack, e)
  BY DEF IInv, Agreement
<1>11. 0 \notin DOMAIN observers' /\ 0 # Len(observers') + 1
  BY <1>2, <1>3
<1>12. Agreement' /\ InEdgesConverse' /\ Control'
  <2>1. Agreement' /\ InEdgesConverse'
    BY <1>1, <1>10, <1>11 DEF IInv, Agreement, InEdgesConverse
  <2>2. Control'
    BY <1>1, <1>5, <1>11 DEF IInv, Control
  <2> QED BY <2>1, <2>2
<1>13. \A e : /\ ~(Inserted(updates_stack, e) /\ Erased(updates_stack, e))
              /\ ~(Untouched(updates_stack, e) /\ Erased(updates_stack, e))
  BY <1>2, Exclusive DEF Typed
<1>14. JdInv'
  <2>1. CASE o = "jd_manager"
    <3>1. Seen("jd_manager")' = edges
      BY <2>1, <1>6, <1>9
    <3>2. \A e : Inserted(updates_stack, e) => e \in edges
      <4>1. \A e : ~(Inserted(updates_stack, e) /\ Untouched(updates_stack, e))
        BY <1>2, Exclusive DEF Typed
      <4> QED BY <4>1, <1>10, <1>13
    <3> QED BY <3>1, <3>2, <1>1, <1>10 DEF JdInv
  <2>2. CASE o # "jd_manager"
    <3>1. Seen("jd_manager")' = Seen("jd_manager")
      BY <2>2, <1>6, <1>9
    <3>2. Attached("jd_manager")' <=> Attached("jd_manager")
      BY <2>2, <1>5
    <3> QED BY <3>1, <3>2, <1>1 DEF IInv, JdInv
  <2> QED BY <2>1, <2>2
<1>15. RecInv'
  <2>1. CASE o = "analysis"
    <3>1. rec = {} /\ view'["analysis"] = edges
      BY <2>1, <1>1, <1>6 DEF IInv, Control
    <3> QED BY <3>1, <1>1 DEF RecInv
  <2>2. CASE o # "analysis"
    <3>1. view'["analysis"] = view["analysis"] /\ (Attached("analysis")' <=> Attached("analysis"))
      BY <2>2, <1>5, <1>6, <1>9
    <3> QED BY <3>1, <1>1, <1>8 DEF IInv, RecInv
  <2> QED BY <2>1, <2>2
<1> QED BY <1>7, <1>12, <1>14, <1>15 DEF IInv

LEMMA UnregisterIInv == ASSUME IInv, Unregister PROVE IInv'
<1> DEFINE n == Len(observers)
<1>1. /\ UNCHANGED <<count, edges, in_edges, ops, updates_stack, updates, at,
                     record, rec>>
      /\ at = 0 /\ Attached("analysis") /\ record = FALSE
      /\ view' = [view EXCEPT !["analysis"] = {}]
  <2>1. record \in BOOLEAN
    BY DEF IInv, Typed, TypeOK
  <2> QED BY <2>1 DEF Unregister, graph_vars, commit_vars, Deciding
<1>2. PICK p \in DOMAIN observers :
        /\ observers[p] = "analysis"
        /\ observers' = [i \in 1 .. n - 1 |-> observers[IF i < p THEN i ELSE i + 1]]
  BY DEF Unregister
<1>3. /\ Typed /\ observers \in Seq(Observer) /\ n \in Nat
      /\ DOMAIN observers = 1 .. n
      /\ view \in [Observer -> SUBSET (Nodes \X Nodes)]
      /\ \A i, j \in DOMAIN observers : observers[i] = observers[j] => i = j
  BY DEF IInv, Typed, TypeOK
<1> HIDE DEF n
<1> DEFINE f(i) == IF i < p THEN i ELSE i + 1
<1>4. /\ p \in Nat /\ n - 1 \in Nat
      /\ \A i \in 1 .. n - 1 : f(i) \in 1 .. n /\ f(i) # p
      /\ \A i, j \in 1 .. n - 1 : f(i) = f(j) => i = j
  <2>1. p \in 1 .. n /\ n \in Nat
    BY <1>2, <1>3
  <2> QED BY ONLY <2>1
<1>5. observers' = [i \in 1 .. n - 1 |-> observers[f(i)]]
  BY <1>2
<1>6. \A q \in 1 .. n : q # p => \E i \in 1 .. n - 1 : f(i) = q
  <2> SUFFICES ASSUME NEW q \in 1 .. n, q # p PROVE \E i \in 1 .. n - 1 : f(i) = q
    OBVIOUS
  <2>1. CASE q < p
    <3>1. q \in 1 .. n - 1 /\ f(q) = q
      BY <2>1, <1>2, <1>3
    <3> QED BY <3>1
  <2>2. CASE q > p
    <3>1. q - 1 \in 1 .. n - 1 /\ f(q - 1) = q
      BY <2>2, <1>2, <1>3
    <3> QED BY <3>1
  <2> QED BY <2>1, <2>2, <1>3, <1>4
<1> HIDE DEF f
<1>7. /\ observers' \in Seq(Observer) /\ Len(observers') = n - 1
      /\ DOMAIN observers' = 1 .. n - 1
  <2>1. \A i \in 1 .. n : observers[i] \in Observer
    BY <1>3
  <2>2. observers' \in [1 .. n - 1 -> Observer]
    BY <2>1, <1>4, <1>5
  <2> QED BY <2>2, <1>4
<1>8. /\ ~Attached("analysis")'
      /\ \A o : o # "analysis" => (Attached(o)' <=> Attached(o))
  <2>1. \A i \in 1 .. n - 1 : observers'[i] # "analysis"
    BY <1>2, <1>3, <1>4, <1>5
  <2>2. ~Attached("analysis")'
    BY <2>1, <1>7 DEF Attached
  <2>3. ASSUME NEW o, o # "analysis" PROVE Attached(o)' <=> Attached(o)
    <3>1. Attached(o)' <=> \E i \in 1 .. n - 1 : observers[f(i)] = o
      BY <1>5, <1>7 DEF Attached
    <3>2. Attached(o) <=> \E q \in 1 .. n : q # p /\ observers[q] = o
      BY <2>3, <1>2, <1>3 DEF Attached
    <3> QED BY <3>1, <3>2, <1>4, <1>6
  <2> QED BY <2>2, <2>3
<1>9. /\ view' \in [Observer -> SUBSET (Nodes \X Nodes)]
      /\ view'["jd_manager"] = view["jd_manager"]
  BY <1>1, <1>3 DEF Observer
<1>10. 0 \notin DOMAIN observers' /\ 0 # Len(observers') + 1 /\ at' = 0
       /\ 0 \in 0 .. Len(observers') + 1
  BY <1>1, <1>4, <1>7
<1>11. Typed'
  <2>1. Nodes' = Nodes
    BY <1>1 DEF Nodes
  <2>2. IsList(updates)' /\ \A i \in DOMAIN updates_stack' : IsList(updates_stack[i])'
    BY <1>1, <2>1 DEF IInv, Typed, TypeOK, IsList
  <2>3. \A i, j \in DOMAIN observers' : observers'[i] = observers'[j] => i = j
    BY <1>3, <1>4, <1>5, <1>7
  <2> QED BY <2>1, <2>2, <2>3, <1>1, <1>3, <1>7, <1>9, <1>10 DEF Typed, TypeOK
<1>12. Seen("jd_manager")' = Seen("jd_manager")
  BY <1>1, <1>9 DEF Seen, Awaits
<1>13. Agreement' /\ InEdgesConverse'
  BY <1>1, <1>10 DEF IInv, Agreement, InEdgesConverse
<1>14. JdInv'
  BY <1>1, <1>8, <1>12 DEF IInv, JdInv
<1>15. RecInv'
  BY <1>8 DEF RecInv
<1>16. Control'
  BY <1>1, <1>8, <1>10 DEF IInv, Control
<1> QED BY <1>11, <1>13, <1>14, <1>15, <1>16 DEF IInv

LEMMA RecordUpdatesIInv == ASSUME IInv, RecordUpdates PROVE IInv'
<1>1. /\ UNCHANGED <<count, edges, in_edges, ops, updates_stack, updates, at,
                     observers, view, rec>>
      /\ at = 0 /\ Attached("analysis") /\ record' = TRUE
  BY DEF RecordUpdates, graph_vars, commit_vars, Deciding
<1>2. /\ \A o : Attached(o)' <=> Attached(o)
      /\ \A o : Awaits(o)' <=> Awaits(o)
      /\ Seen("jd_manager")' = Seen("jd_manager")
  BY <1>1 DEF Attached, Awaits, Seen
<1>3. Typed'
  <2>1. Nodes' = Nodes
    BY <1>1 DEF Nodes
  <2>2. IsList(updates)' /\ \A i \in DOMAIN updates_stack' : IsList(updates_stack[i])'
    BY <1>1, <2>1 DEF IInv, Typed, TypeOK, IsList
  <2>3. record' \in BOOLEAN
    BY <1>1
  <2> QED BY <2>1, <2>2, <2>3, <1>1 DEF IInv, Typed, TypeOK
<1>4. Agreement' /\ InEdgesConverse' /\ JdInv' /\ RecInv'
  BY <1>1, <1>2 DEF IInv, Agreement, InEdgesConverse, JdInv, RecInv
<1>5. Control'
  BY <1>1, <1>2 DEF IInv, Control
<1> QED BY <1>3, <1>4, <1>5 DEF IInv

LEMMA RecordStopCommitIInv == ASSUME IInv, RecordStopCommit PROVE IInv'
<1>1. /\ UNCHANGED <<count, edges, in_edges, ops, updates_stack, updates, at, observers>>
      /\ at = 0 /\ record' = FALSE /\ rec' = {}
      /\ view' = [view EXCEPT !["analysis"] = @ \cup rec]
  BY DEF RecordStopCommit, graph_vars, commit_vars, Deciding
<1>2. /\ view \in [Observer -> SUBSET (Nodes \X Nodes)]
      /\ rec \subseteq Nodes \X Nodes
  BY DEF IInv, Typed, TypeOK
<1>3. /\ view'["analysis"] = view["analysis"] \cup rec
      /\ view'["jd_manager"] = view["jd_manager"]
      /\ view' \in [Observer -> SUBSET (Nodes \X Nodes)]
  BY <1>1, <1>2 DEF Observer
<1>4. /\ \A o : Attached(o)' <=> Attached(o)
      /\ \A o : Awaits(o)' <=> Awaits(o)
      /\ Seen("jd_manager")' = Seen("jd_manager")
  BY <1>1, <1>3 DEF Attached, Awaits, Seen
<1>5. Typed'
  <2>1. Nodes' = Nodes
    BY <1>1 DEF Nodes
  <2>2. IsList(updates)' /\ \A i \in DOMAIN updates_stack' : IsList(updates_stack[i])'
    BY <1>1, <2>1 DEF IInv, Typed, TypeOK, IsList
  <2>3. record' \in BOOLEAN /\ rec' \subseteq Nodes' \X Nodes'
    BY <1>1
  <2> QED BY <2>1, <2>2, <2>3, <1>1, <1>3 DEF IInv, Typed, TypeOK
<1>6. Agreement' /\ InEdgesConverse'
  BY <1>1 DEF IInv, Agreement, InEdgesConverse
<1>7. JdInv'
  BY <1>1, <1>4 DEF IInv, JdInv
<1>8. RecInv'
  BY <1>1, <1>3, <1>4 DEF IInv, RecInv
<1>9. Control'
  <2>1. Len(observers) \in Nat /\ DOMAIN observers = 1 .. Len(observers)
    BY DEF IInv, Typed, TypeOK
  <2>2. at # Len(observers) + 1 /\ at \notin DOMAIN observers
    BY <2>1, <1>1
  <2> QED BY <2>2, <1>1 DEF Control
<1> QED BY <1>5, <1>6, <1>7, <1>8, <1>9 DEF IInv

-----------------------------------------------------------------------------

LEMMA NextIInv == ASSUME IInv, [Next]_vars PROVE IInv'
<1>1. CASE Operate
  BY <1>1, CreateNodeIInv, UpdateEdgeIInv, EraseEdgeIInv, ReplaceNodePayloadIInv,
     MergeIInv DEF Operate
<1>2. CASE Scope
  BY <1>2, PushUpdatesIInv, PopUpdatesIInv, ClearUpdatesIInv DEF Scope
<1>3. CASE Commit
  BY <1>3, CommitIInv
<1>4. CASE Deliver
  BY <1>4, NextUpdatesIInv, DecoderBeginsIInv, DecoderEndsIInv, NotifyJdManagerIInv,
     NotifyRecorderIInv DEF Deliver
<1>5. CASE Observe
  BY <1>5, RegisterIInv, UnregisterIInv, RecordUpdatesIInv, RecordStopCommitIInv
     DEF Observe
<1>6. CASE UNCHANGED vars
  <2>1. UNCHANGED <<count, edges, in_edges, ops, updates_stack, updates, at,
                    observers, view, record, rec>>
    BY <1>6 DEF vars, graph_vars, commit_vars, observer_vars
  <2>2. /\ \A o : Attached(o)' <=> Attached(o)
        /\ \A o : Awaits(o)' <=> Awaits(o)
        /\ Seen("jd_manager")' = Seen("jd_manager")
    BY <2>1 DEF Attached, Awaits, Seen
  <2>3. Typed'
    <3>1. Nodes' = Nodes
      BY <2>1 DEF Nodes
    <3>2. IsList(updates)' /\ \A i \in DOMAIN updates_stack' : IsList(updates_stack[i])'
      BY <2>1, <3>1 DEF IInv, Typed, TypeOK, IsList
    <3> QED BY <3>1, <3>2, <2>1 DEF IInv, Typed, TypeOK
  <2>4. Agreement' /\ InEdgesConverse' /\ JdInv' /\ RecInv'
    BY <2>1, <2>2 DEF IInv, Agreement, InEdgesConverse, JdInv, RecInv
  <2>5. Control'
    BY <2>1, <2>2 DEF IInv, Control
  <2> QED BY <2>3, <2>4, <2>5 DEF IInv
<1> QED BY <1>1, <1>2, <1>3, <1>4, <1>5, <1>6 DEF Next

LEMMA IInvAlways == Spec => []IInv
<1>1. Init => IInv
  BY InitIInv
<1>2. IInv /\ [Next]_vars => IInv'
  BY NextIInv
<1> QED BY <1>1, <1>2, PTL DEF Spec

LEMMA QuiescentUntouched ==
  ASSUME IInv, Quiescent
  PROVE  /\ \A e : Untouched(updates_stack, e)
         /\ \A e : ~Inserted(updates_stack, e) /\ ~Erased(updates_stack, e)
         /\ \A o : ~Awaits(o)
<1>1. updates_stack = <<(<<>>)>> /\ at = 0
  BY DEF Quiescent, Deciding
<1>2. \A o : ~Awaits(o)
  BY <1>1 DEF Awaits
<1> QED BY <1>1, <1>2, Cleared

\* Nodes, edges, update lists and what the observers know stay within the
\* graph, whatever is merged into it.
THEOREM CfgTyped == Spec => []TypeOK
<1>1. IInv => TypeOK
  BY DEF IInv, Typed
<1> QED BY <1>1, IInvAlways, PTL

\* The cache of incoming edges agrees with the edges after every operation.
THEOREM InEdgesSafe == Spec => []InEdgesConverse
<1>1. IInv => InEdgesConverse
  BY DEF IInv
<1> QED BY <1>1, IInvAlways, PTL

\* When everything is committed, the address analysis behind the jump direction
\* manager depends on exactly the edges of the graph.
THEOREM JdManagerSafe == Spec => []JdManagerCurrent
<1>1. ASSUME IInv PROVE JdManagerCurrent
  <2> SUFFICES ASSUME Quiescent, Attached("jd_manager")
               PROVE  view["jd_manager"] = edges
    BY DEF JdManagerCurrent
  <2>1. /\ \A e : Untouched(updates_stack, e) /\ ~Inserted(updates_stack, e)
        /\ Seen("jd_manager") = view["jd_manager"]
    BY <1>1, QuiescentUntouched DEF Seen
  <2>2. \A e : e \in edges <=> e \in view["jd_manager"]
    BY <1>1, <2>1 DEF IInv, JdInv
  <2>3. /\ edges \subseteq Nodes \X Nodes
        /\ view["jd_manager"] \subseteq Nodes \X Nodes
    BY <1>1 DEF IInv, Typed, TypeOK, Observer
  <2> QED BY <2>2, <2>3
<1> QED BY <1>1, IInvAlways, PTL

\* When everything is committed, the recording analysis has missed no edge and
\* recorded none that is gone.
THEOREM RecorderSafe == Spec => []RecorderCurrent
<1>1. ASSUME IInv PROVE RecorderCurrent
  <2> SUFFICES ASSUME Quiescent, Attached("analysis")
               PROVE  edges \subseteq view["analysis"] \cup rec /\ rec \subseteq edges
    BY DEF RecorderCurrent
  <2>1. /\ \A e : ~Inserted(updates_stack, e) /\ ~Erased(updates_stack, e)
        /\ ~Awaits("analysis")
    BY <1>1, QuiescentUntouched
  <2> QED BY <1>1, <2>1 DEF IInv, RecInv
<1> QED BY <1>1, IInvAlways, PTL

=============================================================================
