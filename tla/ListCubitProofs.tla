---------------------------- MODULE ListCubitProofs ----------------------------
(***************************************************************************)
(* Theorems about OutfitsCubit and WardrobeCubit, for any ids and contents  *)
(* and any number of methods that run at a time.  First the operators on    *)
(* lists and the steps of ListCubit, which both share, then each of them.   *)
(***************************************************************************)
EXTENDS OutfitsCubit, WardrobeCubit, WellFoundedInduction, TLAPS

-----------------------------------------------------------------------------
(* Lists.                                                                   *)

(* Every set of numbers that is not empty has a least member.               *)
LEMMA LeastNumber ==
  ASSUME NEW T, T \subseteq Nat, T # {}
  PROVE  \E m \in T : \A k \in T : m <= k
  <1> DEFINE R == {p \in Nat \X Nat : p[1] < p[2]}
  <1>1. IsWellFoundedOn(R, Nat)
    BY NatLessThanWellFounded DEF OpToRel
  <1>2. PICK m \in T : \A k \in T : <<k, m>> \notin R
    BY <1>1, WFMin
  <1>3. ASSUME NEW k \in T  PROVE m <= k
    <2>1. <<k, m>> \in Nat \X Nat /\ ~ (k < m)
      BY <1>2, <1>3
    <2>. QED BY <2>1
  <1>. QED BY <1>3

(* What Without has kept when it comes to place k, if f is what it keeps    *)
(* place by place, and what it keeps then.                                  *)
Before(f, k) == IF k = 1 THEN <<>> ELSE f[k - 1]

Kept(f, k, list, i) ==
  IF list[k].id = i THEN Before(f, k) ELSE Append(Before(f, k), list[k])

Keeps(f, n, list, i) == f = [k \in 1..n |-> Kept(f, k, list, i)]

LEMMA KeepsAt ==
  ASSUME NEW f, NEW n \in Nat, NEW list, NEW i, Keeps(f, n, list, i), NEW k \in 1..n
  PROVE  f[k] = Kept(f, k, list, i)
  <1> DEFINE F == [j \in 1..n |-> Kept(f, j, list, i)]
  <1>1. F[k] = Kept(f, k, list, i)
    OBVIOUS
  <1>2. f = F
    BY DEF Keeps
  <1> HIDE DEF F
  <1>3. f[k] = F[k]
    BY <1>2
  <1>. QED BY <1>1, <1>3

LEMMA KeptExists ==
  ASSUME NEW list, NEW i, NEW n \in Nat
  PROVE  \E f : Keeps(f, n, list, i)
  <1> DEFINE T == {m \in Nat : ~ \E f : Keeps(f, m, list, i)}
  <1> SUFFICES ASSUME T # {}  PROVE FALSE
    OBVIOUS
  <1>1. PICK m \in T : \A k \in T : m <= k
    BY LeastNumber
  <1>2. m # 0
    <2>1. Keeps([k \in 1..0 |-> <<>>], 0, list, i)
      BY DEF Keeps
    <2>. QED BY <2>1
  <1>3. PICK f : Keeps(f, m - 1, list, i)
    <2>1. m - 1 \in Nat /\ ~ (m <= m - 1)
      BY <1>2
    <2>. QED BY <1>1, <2>1
  <1> DEFINE g == [k \in 1..m |-> Kept(f, k, list, i)]
  <1>4. ASSUME NEW k \in 1..(m - 1)  PROVE g[k] = f[k]
    <2>1. m - 1 \in Nat /\ k \in 1..m
      BY <1>2, <1>4
    <2>2. f[k] = Kept(f, k, list, i)
      BY <2>1, <1>3, <1>4, KeepsAt
    <2>3. g[k] = Kept(f, k, list, i)
      BY <2>1
    <2> HIDE DEF g
    <2>. QED BY <2>2, <2>3
  <1> HIDE DEF g
  <1>5. ASSUME NEW k \in 1..m  PROVE Kept(f, k, list, i) = Kept(g, k, list, i)
    <2>1. CASE k = 1
      BY <2>1 DEF Kept, Before
    <2>2. CASE k # 1
      <3>1. k - 1 \in 1..(m - 1)
        BY <1>5, <2>2
      <3>2. g[k - 1] = f[k - 1]
        BY <3>1, <1>4
      <3>. QED BY <2>2, <3>2 DEF Kept, Before
    <2>. QED BY <2>1, <2>2
  <1>6. Keeps(g, m, list, i)
    BY <1>5 DEF Keeps, g
  <1>. QED BY <1>6

OneEach(list) == \A j, k \in DOMAIN list : list[j].id = list[k].id => j = k

Upto(list, k) == {list[j] : j \in 1..k}

(* What is right to have kept of the first k entries.                       *)
Right(kept, k, list, i) ==
  /\ kept \in Lists
  /\ ToSet(kept) = {e \in Upto(list, k) : e.id # i}
  /\ OneEach(list) => OneEach(kept)

LEMMA AppendRight ==
  ASSUME NEW list \in Lists, NEW i, NEW k \in 1..Len(list), list[k].id # i,
         NEW g, Right(g, k - 1, list, i)
  PROVE  Right(Append(g, list[k]), k, list, i)
  <1>1. /\ list[k] \in Entry /\ Upto(list, k) = Upto(list, k - 1) \cup {list[k]}
        /\ g \in Lists
    BY DEF Lists, Upto, Right
  <1>2. Append(g, list[k]) \in Lists
    BY <1>1 DEF Lists
  <1>3. ToSet(Append(g, list[k])) = ToSet(g) \cup {list[k]}
    <2>1. /\ DOMAIN Append(g, list[k]) = 1..(Len(g) + 1) /\ DOMAIN g = 1..Len(g)
          /\ Len(g) \in Nat
          /\ \A j \in 1..Len(g) : Append(g, list[k])[j] = g[j]
          /\ Append(g, list[k])[Len(g) + 1] = list[k]
      BY <1>1 DEF Lists
    <2>2. 1..(Len(g) + 1) = 1..Len(g) \cup {Len(g) + 1}
      BY <2>1
    <2>. QED BY <2>1, <2>2 DEF ToSet
  <1>4. ToSet(Append(g, list[k])) = {e \in Upto(list, k) : e.id # i}
    BY <1>1, <1>3 DEF Right
  <1>5. ASSUME OneEach(list)  PROVE OneEach(Append(g, list[k]))
    <2>1. \A j \in 1..(k - 1) : list[j].id # list[k].id
      BY <1>5 DEF OneEach, Lists
    <2>2. \A j \in DOMAIN g : g[j].id # list[k].id
      <3>1. \A j \in DOMAIN g : g[j] \in Upto(list, k - 1)
        BY DEF Right, ToSet
      <3>. QED BY <2>1, <3>1 DEF Upto
    <2>3. OneEach(g)
      BY <1>5 DEF Right
    <2>. QED BY <1>1, <2>2, <2>3 DEF OneEach, Lists
  <1>. QED BY <1>2, <1>4, <1>5 DEF Right

(* Without leaves exactly the entries that have another id, each of them    *)
(* once if it was there once.                                               *)
LEMMA WithoutLeaves ==
  ASSUME NEW list \in Lists, NEW i
  PROVE  /\ Without(list, i) \in Lists
         /\ ToSet(Without(list, i)) = {e \in ToSet(list) : e.id # i}
         /\ IdsOf(Without(list, i)) = IdsOf(list) \ {i}
         /\ OneEach(list) => OneEach(Without(list, i))
  <1> DEFINE f == CHOOSE f : Keeps(f, Len(list), list, i)
             T == {k \in 1..Len(list) : ~ Right(f[k], k, list, i)}
  <1>1. Len(list) \in Nat
    BY DEF Lists
  <1>2. Keeps(f, Len(list), list, i)
    BY <1>1, KeptExists
  <1>3. Without(list, i) = IF list = <<>> THEN <<>> ELSE f[Len(list)]
    BY DEF Without, Keeps, Kept, Before
  <1> HIDE DEF f
  <1>4. \A k \in 1..Len(list) : f[k] = Kept(f, k, list, i)
    BY <1>1, <1>2, KeepsAt
  <1>5. Right(<<>>, 0, list, i)
    BY DEF Right, ToSet, Upto, OneEach, Lists
  <1>6. ASSUME NEW k \in 1..Len(list), Right(Before(f, k), k - 1, list, i)
        PROVE  Right(f[k], k, list, i)
    <2>1. CASE list[k].id = i
      <3>1. {e \in Upto(list, k) : e.id # i} = {e \in Upto(list, k - 1) : e.id # i}
        <4>1. Upto(list, k) = Upto(list, k - 1) \cup {list[k]}
          BY DEF Upto
        <4>. QED BY <2>1, <4>1
      <3>2. f[k] = Before(f, k)
        BY <1>4, <2>1 DEF Kept
      <3>. QED BY <1>6, <3>1, <3>2 DEF Right
    <2>2. CASE list[k].id # i
      BY <1>4, <1>6, <2>2, AppendRight DEF Kept
    <2>. QED BY <2>1, <2>2
  <1>7. T = {}
    <2> SUFFICES ASSUME T # {}  PROVE FALSE
      OBVIOUS
    <2>1. PICK m \in T : \A k \in T : m <= k
      <3>1. T \subseteq Nat
        OBVIOUS
      <3> HIDE DEF T
      <3>. QED BY <3>1, LeastNumber
    <2>2. m \in 1..Len(list) /\ ~ Right(f[m], m, list, i)
      OBVIOUS
    <2>3. CASE m = 1
      BY <1>5, <1>6, <2>2, <2>3 DEF Before
    <2>4. CASE m # 1
      <3>1. m - 1 \in 1..Len(list) /\ ~ (m <= m - 1)
        BY <1>1, <2>2, <2>4
      <3>2. Right(f[m - 1], m - 1, list, i)
        BY <2>1, <3>1
      <3>. QED BY <1>6, <2>2, <2>4, <3>2 DEF Before
    <2>. QED BY <2>3, <2>4
  <1>8. Right(Without(list, i), Len(list), list, i)
    <2>1. CASE list = <<>>
      BY <1>3, <1>5, <2>1
    <2>2. CASE list # <<>>
      <3>1. Len(list) \in 1..Len(list)
        BY <1>1, <2>2 DEF Lists
      <3>. QED BY <1>3, <1>7, <2>2, <3>1
    <2>. QED BY <2>1, <2>2
  <1>9. Upto(list, Len(list)) = ToSet(list)
    BY DEF ToSet, Upto, Lists
  <1>10. IdsOf(Without(list, i)) = IdsOf(list) \ {i}
    BY <1>8, <1>9 DEF Right, IdsOf
  <1>. QED BY <1>8, <1>9, <1>10 DEF Right

(* WithContent changes no id, and no entry that has another one.            *)
LEMMA WithContentKeeps ==
  ASSUME NEW list \in Lists, NEW i \in Ids, NEW x \in Contents \cup {None}
  PROVE  /\ WithContent(list, i, x) \in Lists
         /\ IdsOf(WithContent(list, i, x)) = IdsOf(list)
         /\ \A e \in ToSet(WithContent(list, i, x)) :
              IF e.id = i THEN e = [id |-> i, content |-> x] ELSE e \in ToSet(list)
         /\ \A e \in ToSet(list) : e.id # i => e \in ToSet(WithContent(list, i, x))
         /\ OneEach(list) => OneEach(WithContent(list, i, x))
  <1> DEFINE w == WithContent(list, i, x)
  <1>1. DOMAIN w = DOMAIN list /\ DOMAIN list = 1..Len(list)
    BY DEF WithContent
  <1>2. \A k \in DOMAIN list :
          /\ list[k] \in Entry /\ w[k] \in Entry
          /\ w[k].id = list[k].id
          /\ w[k] = IF list[k].id = i THEN [id |-> i, content |-> x] ELSE list[k]
    <2> SUFFICES ASSUME NEW k \in DOMAIN list
                 PROVE  /\ list[k] \in Entry /\ w[k] \in Entry
                        /\ w[k].id = list[k].id
                        /\ w[k] = IF list[k].id = i THEN [id |-> i, content |-> x] ELSE list[k]
      OBVIOUS
    <2>1. list[k] \in Entry
      BY DEF Lists
    <2>2. w[k] = IF list[k].id = i THEN [list[k] EXCEPT !.content = x] ELSE list[k]
      BY DEF WithContent
    <2> HIDE DEF w
    <2>3. CASE list[k].id = i
      <3>1. [list[k] EXCEPT !.content = x] = [id |-> i, content |-> x]
        BY <2>1, <2>3 DEF Entry
      <3>. QED BY <2>1, <2>2, <2>3, <3>1 DEF Entry
    <2>4. CASE list[k].id # i
      BY <2>1, <2>2, <2>4
    <2>. QED BY <2>3, <2>4
  <1> HIDE DEF w
  <1>3. w \in Lists
    <2>1. w = [k \in 1..Len(list) |-> w[k]]
      BY <1>1 DEF w, WithContent
    <2>2. Len(list) \in Nat /\ \A k \in 1..Len(list) : w[k] \in Entry
      BY <1>1, <1>2
    <2>. QED BY <2>1, <2>2 DEF Lists
  <1>4. IdsOf(w) = IdsOf(list)
    BY <1>1, <1>2 DEF IdsOf, ToSet
  <1>5. \A e \in ToSet(w) : IF e.id = i THEN e = [id |-> i, content |-> x] ELSE e \in ToSet(list)
    BY <1>1, <1>2 DEF ToSet
  <1>6. \A e \in ToSet(list) : e.id # i => e \in ToSet(w)
    BY <1>1, <1>2 DEF ToSet
  <1>7. OneEach(list) => OneEach(w)
    BY <1>1, <1>2 DEF OneEach
  <1>. QED BY <1>3, <1>4, <1>5, <1>6, <1>7 DEF w

LEMMA ConsPuts ==
  ASSUME NEW list \in Lists, NEW e \in Entry
  PROVE  /\ Cons(e, list) \in Lists
         /\ Head(Cons(e, list)) = e
         /\ ToSet(Cons(e, list)) = {e} \cup ToSet(list)
         /\ IdsOf(Cons(e, list)) = {e.id} \cup IdsOf(list)
         /\ OneEach(list) /\ e.id \notin IdsOf(list) => OneEach(Cons(e, list))
  <1> DEFINE w == Cons(e, list)
  <1>1. /\ w \in Lists /\ Len(w) = Len(list) + 1 /\ Head(w) = e
        /\ w[1] = e /\ \A k \in 1..Len(list) : w[k + 1] = list[k]
    BY DEF Cons, Lists
  <1> HIDE DEF w
  <1>2. /\ DOMAIN w = 1..(Len(list) + 1) /\ DOMAIN list = 1..Len(list)
        /\ \A k \in DOMAIN w : k = 1 \/ (k - 1 \in DOMAIN list /\ w[k] = list[k - 1])
        /\ \A k \in DOMAIN list : k + 1 \in DOMAIN w /\ w[k + 1] = list[k]
        /\ 1 \in DOMAIN w /\ Len(list) \in Nat
    BY <1>1
  <1>3. ToSet(w) = {e} \cup ToSet(list)
    BY <1>1, <1>2 DEF ToSet
  <1>4. IdsOf(w) = {e.id} \cup IdsOf(list)
    BY <1>3 DEF IdsOf
  <1>5. ASSUME OneEach(list), e.id \notin IdsOf(list)  PROVE OneEach(w)
    <2>1. \A k \in DOMAIN list : list[k].id # e.id
      BY <1>5 DEF IdsOf, ToSet
    <2> SUFFICES ASSUME NEW j \in DOMAIN w, NEW k \in DOMAIN w, w[j].id = w[k].id
                 PROVE  j = k
      BY DEF OneEach
    <2>2. CASE j = 1 \/ k = 1
      BY <2>1, <2>2, <1>1, <1>2
    <2>3. CASE j # 1 /\ k # 1
      BY <2>3, <1>2, <1>5 DEF OneEach
    <2>. QED BY <2>2, <2>3
  <1>. QED BY <1>1, <1>3, <1>4, <1>5 DEF w

LEMMA ShortLists ==
  /\ <<>> \in Lists /\ OneEach(<<>>) /\ IdsOf(<<>>) = {}
  /\ \A e \in Entry : <<e>> \in Lists /\ OneEach(<<e>>) /\ IdsOf(<<e>>) = {e.id}
  <1>1. <<>> \in Lists /\ OneEach(<<>>) /\ IdsOf(<<>>) = {}
    BY DEF Lists, OneEach, IdsOf, ToSet
  <1>2. ASSUME NEW e \in Entry
        PROVE  <<e>> \in Lists /\ OneEach(<<e>>) /\ IdsOf(<<e>>) = {e.id}
    <2>1. <<e>> \in Lists /\ DOMAIN <<e>> = {1} /\ <<e>>[1] = e
      BY DEF Lists
    <2>. QED BY <2>1 DEF OneEach, IdsOf, ToSet
  <1>. QED BY <1>1, <1>2

LEMMA EntriesTyped ==
  ASSUME NEW list \in Lists
  PROVE  ToSet(list) \subseteq Entry /\ IdsOf(list) \subseteq Ids
  <1>1. \A k \in DOMAIN list : list[k] \in Entry
    BY DEF Lists
  <1>2. ToSet(list) \subseteq Entry
    BY <1>1 DEF ToSet
  <1>. QED BY <1>2 DEF IdsOf, Entry

LEMMA HeadIn ==
  ASSUME NEW list \in Lists, list # <<>>
  PROVE  Head(list) \in ToSet(list) /\ Head(list).id \in IdsOf(list)
  <1>1. 1 \in DOMAIN list /\ Head(list) = list[1]
    BY DEF Lists
  <1>2. Head(list) \in ToSet(list)
    BY <1>1 DEF ToSet
  <1>. QED BY <1>2 DEF IdsOf

-----------------------------------------------------------------------------
(* What both cubits keep, whatever else their methods do.                   *)

ListTyped(pcs) ==
  /\ stored \in Lists /\ shown \in Lists
  /\ drawn \subseteq Ids
  /\ status \in Statuses
  /\ call \in [Calls -> Call(pcs)]
  /\ adrift \in BOOLEAN

(* No row is stored twice, and no id is in a list that was not drawn.       *)
ListsDrawn == /\ OneEach(stored)
              /\ IdsOf(stored) \subseteq drawn
              /\ IdsOf(shown) \subseteq drawn

(* What a load or a deletion relies on while others change the rows: its    *)
(* ids were drawn, and a row that was deleted does not come back.           *)
ListHolds(q, rows, ids) ==
  /\ q.pc = "load_answer" => IdsOf(q.answer) \subseteq ids
  /\ q.pc \in {"delete", "delete_answer"} => q.id \in ids
  /\ q.pc = "delete_answer" => q.id \notin IdsOf(rows)

(* A load that nothing has crossed is alone with the rows, which are still  *)
(* what it read.                                                            *)
UncrossedLoad ==
  \A c \in Calls : Loading(c) /\ ~call[c].crossed =>
    /\ \A d \in Calls : ~Writing(d)
    /\ At(c, "load_answer") => call[c].answer = stored

ListSound == /\ ListsDrawn
             /\ \A c \in Calls : ListHolds(call[c], stored, drawn)
             /\ UncrossedLoad

USE DEF LoadPCs, DeletePCs

LEMMA CallTyped ==
  ASSUME NEW pcs, call \in [Calls -> Call(pcs)], NEW c \in Calls
  PROVE  /\ call[c] \in Call(pcs) /\ call[c].pc \in pcs
         /\ call[c].id \in Ids \cup {None} /\ call[c].content \in Contents \cup {None}
         /\ call[c].answer \in Lists /\ call[c].crossed \in BOOLEAN
  BY DEF Call

LEMMA NoCallTyped ==
  /\ NoCall.pc = "idle" /\ NoCall.id = None /\ NoCall.content = None
  /\ \A pcs : "idle" \in pcs => NoCall \in Call(pcs)
  BY ShortLists DEF NoCall, Call

(* What a method is about to do, with which entry.                          *)
AsBefore(d) == /\ call'[d].pc = call[d].pc /\ call'[d].id = call[d].id
               /\ call'[d].content = call[d].content /\ call'[d].answer = call[d].answer

(* A step of one method, which sets its record and no other.                *)
LEMMA OneCall ==
  ASSUME NEW pcs, call \in [Calls -> Call(pcs)], NEW c \in Calls, NEW q \in Call(pcs),
         call' = [call EXCEPT ![c] = q]
  PROVE  /\ call' \in [Calls -> Call(pcs)] /\ call'[c] = q
         /\ \A d \in Calls \ {c} : call'[d] = call[d] /\ AsBefore(d)
  BY DEF AsBefore

(* Rows that a step adds are new.                                           *)
RowsGrow ==
  /\ drawn \subseteq drawn'
  /\ OneEach(stored') /\ IdsOf(stored') \subseteq IdsOf(stored) \cup (drawn' \ drawn)

LEMMA MoveSound ==
  ASSUME ListSound, NEW c \in Calls, RowsGrow, \A d \in Calls \ {c} : AsBefore(d),
         ListHolds(call'[c], stored', drawn'), UncrossedLoad',
         IdsOf(shown') \subseteq drawn'
  PROVE  ListSound'
  <1>1. ListsDrawn'
    BY DEF ListSound, ListsDrawn, RowsGrow
  <1>2. ASSUME NEW d \in Calls \ {c}  PROVE ListHolds(call'[d], stored', drawn')
    BY DEF ListSound, ListHolds, AsBefore, RowsGrow
  <1>. QED BY <1>1, <1>2 DEF ListSound

(* The loads that run have crossed every method that writes.                *)
LEMMA WriterCrosses ==
  ASSUME NEW pcs, call \in [Calls -> Call(pcs)], UncrossedLoad,
         NEW c \in Calls, NEW q, Writing(c), q.pc \notin LoadPCs, call' = [call EXCEPT ![c] = q]
  PROVE  UncrossedLoad'
  <1>1. \A d \in Calls : Loading(d) => call[d].crossed
    BY DEF UncrossedLoad
  <1>2. \A d \in Calls : call'[d] = IF d = c THEN q ELSE call[d]
    OBVIOUS
  <1>3. \A d \in Calls : Loading(d)' => call'[d].crossed
    BY <1>1, <1>2 DEF Loading
  <1>. QED BY <1>3 DEF UncrossedLoad

LEMMA StartWrites ==
  ASSUME NEW pcs, "idle" \in pcs, call \in [Calls -> Call(pcs)],
         NEW c \in Calls, NEW pc \in pcs \ LoadPCs,
         NEW i \in Ids \cup {None}, NEW x \in Contents \cup {None}, StartWrite(c, pc, i, x)
  PROVE  /\ call' \in [Calls -> Call(pcs)] /\ \A d \in Calls \ {c} : AsBefore(d)
         /\ call[c].pc = "idle"
         /\ call'[c].pc = pc /\ call'[c].id = i /\ call'[c].content = x
         /\ UncrossedLoad'
  <1>1. call'[c] = [NoCall EXCEPT !.pc = pc, !.id = i, !.content = x]
    BY DEF StartWrite
  <1>2. call'[c] \in Call(pcs) /\ call'[c].pc = pc /\ call'[c].id = i /\ call'[c].content = x
    BY <1>1, NoCallTyped DEF NoCall, Call
  <1>3. ASSUME NEW d \in Calls \ {c}
        PROVE  /\ call'[d] \in Call(pcs) /\ AsBefore(d)
               /\ Loading(d)' => call'[d].crossed
    <2>1. call'[d] = [call[d] EXCEPT !.crossed = Loading(d)]
      BY DEF StartWrite
    <2>2. call[d] \in Call(pcs) /\ Loading(d) \in BOOLEAN
      BY DEF Loading
    <2>. QED BY <2>1, <2>2 DEF Call, AsBefore, Loading
  <1>4. UncrossedLoad'
    BY <1>2, <1>3 DEF UncrossedLoad, Loading
  <1>5. call' = [d \in Calls |-> call'[d]]
    BY DEF StartWrite
  <1>. QED BY <1>2, <1>3, <1>4, <1>5 DEF StartWrite, At

LEMMA ListInitSound ==
  ASSUME NEW pcs, "idle" \in pcs, ListInit
  PROVE  /\ ListTyped(pcs) /\ ListSound /\ adrift
         /\ \A c \in Calls : call[c].pc = "idle"
         /\ \A e \in ToSet(stored) : e.content = None
  <1>1. /\ stored \in Lists /\ OneEach(stored)
        /\ drawn = IdsOf(stored) /\ drawn \subseteq Ids
        /\ \A e \in ToSet(stored) : e.content = None
    <2>1. PICK s \in {<<>>} \cup {<<NewEntry(i)>> : i \in Ids} : stored = s /\ drawn = IdsOf(s)
      BY DEF ListInit
    <2>2. CASE s = <<>>
      <3>1. ToSet(<<>>) = {}
        BY DEF ToSet
      <3>. QED BY <2>1, <2>2, <3>1, ShortLists
    <2>3. ASSUME NEW i \in Ids, s = <<NewEntry(i)>>
          PROVE  /\ s \in Lists /\ OneEach(s) /\ IdsOf(s) \subseteq Ids
                 /\ \A e \in ToSet(s) : e.content = None
      <3>1. NewEntry(i) \in Entry /\ NewEntry(i).id = i /\ NewEntry(i).content = None
        BY DEF NewEntry, Entry
      <3>2. ToSet(<<NewEntry(i)>>) = {NewEntry(i)}
        BY DEF ToSet
      <3>. QED BY <2>3, <3>1, <3>2, ShortLists
    <2>. QED BY <2>1, <2>2, <2>3
  <1>2. shown = <<>> /\ shown \in Lists /\ IdsOf(shown) = {}
    BY ShortLists DEF ListInit
  <1>3. call = [c \in Calls |-> NoCall] /\ call \in [Calls -> Call(pcs)]
    BY NoCallTyped DEF ListInit
  <1>4. ListTyped(pcs)
    BY <1>1, <1>2, <1>3 DEF ListInit, ListTyped, Statuses
  <1>5. ListSound
    BY <1>1, <1>2, <1>3, NoCallTyped DEF ListSound, ListsDrawn, ListHolds, UncrossedLoad, Loading
  <1>. QED BY <1>1, <1>3, <1>4, <1>5, NoCallTyped DEF ListInit

LoadStep(c) == Load(c) \/ LoadServed(c) \/ LoadAnswered(c) \/ LoadFails(c)

DeleteStep(c) == Delete(c) \/ DeleteServed(c) \/ DeleteAnswered(c) \/ DeleteFails(c)

LEMMA LoadSound ==
  ASSUME NEW pcs, {"idle"} \cup LoadPCs \subseteq pcs, ListTyped(pcs), ListSound,
         NEW c \in Calls, LoadStep(c)
  PROVE  /\ ListTyped(pcs)' /\ ListSound' /\ UNCHANGED <<stored, drawn>>
         /\ call[c].pc \in {"idle"} \cup LoadPCs /\ call'[c].pc \in {"idle"} \cup LoadPCs
         /\ \A d \in Calls \ {c} : call'[d] = call[d] /\ AsBefore(d)
  <1>1. /\ call \in [Calls -> Call(pcs)] /\ call[c] \in Call(pcs) /\ stored \in Lists
        /\ UNCHANGED <<stored, drawn>> /\ call[c].pc \in {"idle"} \cup LoadPCs
    BY DEF ListTyped, LoadStep, Load, LoadServed, LoadAnswered, LoadFails, At, Loading
  <1>2. RowsGrow
    BY <1>1 DEF ListSound, ListsDrawn, RowsGrow
  <1>3. ASSUME NEW q \in Call(pcs), call' = [call EXCEPT ![c] = q],
               q.pc \in {"idle"} \cup LoadPCs,
               q.pc = "load_answer" => IdsOf(q.answer) \subseteq drawn,
               q.pc \in LoadPCs /\ ~q.crossed =>
                 /\ \A d \in Calls : ~Writing(d)
                 /\ q.pc = "load_answer" => q.answer = stored,
               shown' \in Lists, IdsOf(shown') \subseteq drawn,
               status' \in Statuses, adrift' \in BOOLEAN
        PROVE  /\ ListTyped(pcs)' /\ ListSound' /\ call'[c].pc \in {"idle"} \cup LoadPCs
               /\ \A d \in Calls \ {c} : call'[d] = call[d] /\ AsBefore(d)
    <2>1. /\ call' \in [Calls -> Call(pcs)] /\ call'[c] = q
          /\ \A d \in Calls \ {c} : call'[d] = call[d] /\ AsBefore(d)
      BY <1>1, <1>3, OneCall
    <2>2. \A d \in Calls : Writing(d)' => Writing(d)
      BY <1>3, <2>1 DEF Writing, Loading
    <2>3. UncrossedLoad'
      BY <1>1, <1>3, <2>1, <2>2 DEF ListSound, UncrossedLoad, Loading, At
    <2>4. ListHolds(call'[c], stored', drawn')
      BY <1>1, <1>3, <2>1 DEF ListHolds
    <2>5. ListSound'
      BY <1>1, <1>2, <1>3, <2>1, <2>3, <2>4, MoveSound
    <2>6. ListTyped(pcs)'
      BY <1>1, <1>3, <2>1 DEF ListTyped
    <2>. QED BY <1>3, <2>1, <2>5, <2>6
  <1>4. CASE Load(c)
    <2> DEFINE q == [NoCall EXCEPT !.pc = "load", !.crossed = \E d \in Calls : Writing(d)]
    <2>1. q \in Call(pcs) /\ q.pc = "load" /\ q.crossed = (\E d \in Calls : Writing(d))
      BY NoCallTyped DEF NoCall, Call
    <2>2. call' = [call EXCEPT ![c] = q]
      BY <1>4 DEF Load
    <2> HIDE DEF q
    <2>. QED
      BY <1>1, <1>3, <1>4, <2>1, <2>2 DEF Load, ListTyped, ListSound, ListsDrawn, Statuses
  <1>5. CASE LoadServed(c)
    <2> DEFINE q == [call[c] EXCEPT !.pc = "load_answer", !.answer = stored]
    <2>1. q \in Call(pcs) /\ q.pc = "load_answer" /\ q.answer = stored /\ q.crossed = call[c].crossed
      BY <1>1 DEF Call
    <2>2. call' = [call EXCEPT ![c] = q]
      BY <1>1, <1>5 DEF LoadServed
    <2> HIDE DEF q
    <2>3. Loading(c) /\ (~call[c].crossed => \A d \in Calls : ~Writing(d))
      BY <1>5 DEF LoadServed, At, Loading, ListSound, UncrossedLoad
    <2>. QED
      BY <1>1, <1>3, <1>5, <2>1, <2>2, <2>3 DEF LoadServed, ListTyped, ListSound, ListsDrawn
  <1>6. CASE LoadAnswered(c) \/ LoadFails(c)
    <2>1. call' = [call EXCEPT ![c] = NoCall]
      BY <1>6 DEF LoadAnswered, LoadFails, Done
    <2>2. /\ shown' \in Lists /\ IdsOf(shown') \subseteq drawn
          /\ status' \in Statuses /\ adrift' \in BOOLEAN
      BY <1>1, <1>6, CallTyped
      DEF LoadAnswered, LoadFails, ListSound, ListHolds, At, ListTyped, ListsDrawn, Statuses
    <2>. QED BY <1>1, <1>3, <2>1, <2>2, NoCallTyped
  <1>. QED BY <1>4, <1>5, <1>6 DEF LoadStep

(* What an uncrossed load shows is what is stored, and nobody is about to   *)
(* change that.                                                             *)
LEMMA LoadShows ==
  ASSUME ListSound, NEW c \in Calls, LoadAnswered(c), ~adrift'
  PROVE  shown' = stored /\ \A d \in Calls : ~Writing(d)
  BY DEF LoadAnswered, ListSound, UncrossedLoad, Loading, At

LEMMA DeleteSound ==
  ASSUME NEW pcs, {"idle"} \cup DeletePCs \subseteq pcs, ListTyped(pcs), ListSound,
         NEW c \in Calls, DeleteStep(c)
  PROVE  /\ ListTyped(pcs)' /\ ListSound' /\ drawn' = drawn /\ (adrift => adrift')
         /\ ToSet(stored') \subseteq ToSet(stored)
         /\ call[c].pc \in {"idle"} \cup DeletePCs /\ call'[c].pc \in {"idle"} \cup DeletePCs
         /\ \A d \in Calls \ {c} : AsBefore(d)
  <1>1. /\ call \in [Calls -> Call(pcs)] /\ call[c] \in Call(pcs)
        /\ stored \in Lists /\ shown \in Lists /\ drawn \subseteq Ids
        /\ ListsDrawn /\ UncrossedLoad /\ ListHolds(call[c], stored, drawn)
    BY DEF ListTyped, ListSound
  <1>2. /\ drawn' = drawn /\ (adrift => adrift') /\ status' = status /\ adrift' \in BOOLEAN
        /\ call[c].pc \in {"idle"} \cup DeletePCs
    BY DEF ListTyped, DeleteStep, Delete, DeleteServed, DeleteAnswered, DeleteFails, StartWrite, At
  <1>3. ASSUME call' \in [Calls -> Call(pcs)], \A d \in Calls \ {c} : AsBefore(d), UncrossedLoad',
               call'[c].pc \in {"idle"} \cup DeletePCs, ListHolds(call'[c], stored', drawn),
               stored' \in Lists, OneEach(stored'), IdsOf(stored') \subseteq IdsOf(stored),
               shown' \in Lists, IdsOf(shown') \subseteq IdsOf(shown)
        PROVE  ListTyped(pcs)' /\ ListSound'
    <2>1. ListTyped(pcs)'
      BY <1>1, <1>2, <1>3 DEF ListTyped
    <2>2. RowsGrow /\ IdsOf(shown') \subseteq drawn'
      BY <1>1, <1>2, <1>3 DEF RowsGrow, ListsDrawn
    <2>. QED BY <1>2, <1>3, <2>1, <2>2, MoveSound
  <1>4. CASE Delete(c)
    <2>1. PICK i \in IdsOf(shown) : StartWrite(c, "delete", i, None)
      BY <1>4 DEF Delete
    <2>2. i \in drawn /\ i \in Ids
      BY <1>1 DEF ListsDrawn
    <2>3. /\ call' \in [Calls -> Call(pcs)] /\ \A d \in Calls \ {c} : AsBefore(d)
          /\ call'[c].pc = "delete" /\ call'[c].id = i /\ UncrossedLoad'
      BY <1>1, <2>1, <2>2, StartWrites
    <2>4. ListHolds(call'[c], stored', drawn)
      BY <2>2, <2>3 DEF ListHolds
    <2>5. UNCHANGED <<stored, shown>>
      BY <1>4 DEF Delete
    <2>. QED BY <1>1, <1>2, <1>3, <2>3, <2>4, <2>5 DEF ListsDrawn
  <1>5. CASE DeleteServed(c)
    <2> DEFINE q == [call[c] EXCEPT !.pc = "delete_answer"]
    <2>1. q \in Call(pcs) /\ q.pc = "delete_answer" /\ q.id = call[c].id
      BY <1>1 DEF Call
    <2>2. call' = [call EXCEPT ![c] = q]
      BY <1>1, <1>5 DEF DeleteServed, Goto
    <2> HIDE DEF q
    <2>3. UncrossedLoad'
      BY <1>1, <1>5, <2>1, <2>2, WriterCrosses DEF DeleteServed, At, Writing, Loading
    <2>4. /\ stored' \in Lists /\ OneEach(stored')
          /\ IdsOf(stored') = IdsOf(stored) \ {q.id}
          /\ ToSet(stored') \subseteq ToSet(stored)
      BY <1>1, <1>5, <2>1, WithoutLeaves DEF DeleteServed, ListsDrawn
    <2>5. ListHolds(q, stored', drawn)
      BY <1>1, <1>5, <2>1, <2>4 DEF DeleteServed, ListHolds, At
    <2>6. shown' = shown
      BY <1>5 DEF DeleteServed
    <2>7. /\ call' \in [Calls -> Call(pcs)] /\ call'[c] = q
          /\ \A d \in Calls \ {c} : AsBefore(d)
      BY <1>1, <2>1, <2>2, OneCall
    <2>. QED BY <1>1, <1>2, <1>3, <2>1, <2>3, <2>4, <2>5, <2>6, <2>7
  <1>6. CASE DeleteAnswered(c) \/ DeleteFails(c)
    <2>1. call' = [call EXCEPT ![c] = NoCall] /\ stored' = stored
      BY <1>6 DEF DeleteAnswered, DeleteFails, Done
    <2>2. UncrossedLoad'
      BY <1>1, <1>6, <2>1, NoCallTyped, WriterCrosses
      DEF DeleteAnswered, DeleteFails, At, Writing, Loading
    <2>3. shown' \in Lists /\ IdsOf(shown') \subseteq IdsOf(shown)
      BY <1>1, <1>6, WithoutLeaves DEF DeleteAnswered, DeleteFails
    <2>4. /\ call' \in [Calls -> Call(pcs)] /\ call'[c] = NoCall
          /\ \A d \in Calls \ {c} : AsBefore(d)
      BY <1>1, <2>1, NoCallTyped, OneCall
    <2>5. ListHolds(call'[c], stored', drawn)
      BY <2>4, NoCallTyped DEF ListHolds
    <2>. QED BY <1>1, <1>2, <1>3, <2>1, <2>2, <2>3, <2>4, <2>5, NoCallTyped DEF ListsDrawn
  <1>. QED BY <1>2, <1>4, <1>5, <1>6 DEF DeleteStep

(* What a deletion does to the two lists, unless its answer is lost.        *)
LEMMA DeleteDoes ==
  ASSUME NEW pcs, "idle" \in pcs, "delete" \in pcs, ListTyped(pcs), ListSound,
         NEW c \in Calls, DeleteStep(c), ~adrift'
  PROVE  \/ /\ UNCHANGED <<stored, shown>> /\ call[c].pc # "delete_answer"
            /\ \/ call'[c].pc = "idle"
               \/ call'[c].pc = "delete" /\ call'[c].id \in IdsOf(shown)
         \/ /\ call[c].pc = "delete" /\ call'[c].pc = "delete_answer"
            /\ call'[c].id = call[c].id /\ shown' = shown
            /\ ToSet(stored') = {e \in ToSet(stored) : e.id # call[c].id}
            /\ IdsOf(stored') = IdsOf(stored) \ {call[c].id}
         \/ /\ call[c].pc = "delete_answer" /\ call'[c].pc = "idle"
            /\ stored' = stored /\ call[c].id \notin IdsOf(stored)
            /\ ToSet(shown') = {e \in ToSet(shown) : e.id # call[c].id}
            /\ IdsOf(shown') = IdsOf(shown) \ {call[c].id}
            /\ OneEach(shown) => OneEach(shown')
  <1>1. /\ call \in [Calls -> Call(pcs)] /\ call[c] \in Call(pcs)
        /\ stored \in Lists /\ shown \in Lists /\ drawn \subseteq Ids
        /\ IdsOf(shown) \subseteq drawn /\ ListHolds(call[c], stored, drawn)
    BY DEF ListTyped, ListSound, ListsDrawn
  <1>2. CASE Delete(c)
    <2>1. PICK i \in IdsOf(shown) : StartWrite(c, "delete", i, None)
      BY <1>2 DEF Delete
    <2>2. call[c].pc = "idle" /\ call'[c].pc = "delete" /\ call'[c].id = i
      BY <1>1, <2>1, StartWrites
    <2>. QED BY <1>2, <2>2 DEF Delete
  <1>3. CASE DeleteServed(c)
    BY <1>1, <1>3, WithoutLeaves DEF DeleteServed, Goto, At, Call
  <1>4. CASE DeleteAnswered(c)
    <2>1. /\ call[c].pc = "delete_answer" /\ call'[c].pc = "idle" /\ stored' = stored
          /\ shown' = Without(shown, call[c].id)
      BY <1>1, <1>4, NoCallTyped DEF DeleteAnswered, Done, At
    <2>. QED BY <1>1, <2>1, WithoutLeaves DEF ListHolds
  <1>5. CASE DeleteFails(c)
    BY <1>1, <1>5, NoCallTyped DEF DeleteFails, Done, At
  <1>. QED BY <1>2, <1>3, <1>4, <1>5 DEF DeleteStep

-----------------------------------------------------------------------------
(* OutfitsCubit: what holds of the lists and the methods at any time.       *)

OutfitsPCs == {"idle"} \cup LoadPCs \cup DeletePCs \cup CreatePCs

USE DEF OutfitsPCs, CreatePCs

(* Nobody else sets the items of an outfit that is being created.           *)
CreationHolds(q, rows, ids, selected) ==
  /\ q.pc = "create" => q.id = None
  /\ q.pc \in CreatePCs \ {"create"} => q.id \in ids /\ selected[q.id] = q.content
  /\ q.pc = "put_answer" => \A e \in ToSet(rows) : e.id = q.id => e.content = q.content

CreationsHold == \A c \in Calls : CreationHolds(call[c], stored, drawn, promised)

CreatingApart ==
  \A c, d \in Calls : Creating(c) /\ Creating(d) /\ call[c].id = call[d].id => c = d

OutfitsSound == OutfitsTypeOK /\ ListSound /\ CreationsHold /\ CreatingApart

LEMMA OutfitsTyped ==
  /\ OutfitsTypeOK <=> ListTyped(OutfitsPCs) /\ promised \in [Ids -> Contents \cup {None}]
  /\ OutfitsTypeOK' <=> ListTyped(OutfitsPCs)' /\ promised' \in [Ids -> Contents \cup {None}]
  BY DEF OutfitsTypeOK, ListTyped

(* What a step of c may do to the rows: the outfits that others create are  *)
(* left alone.                                                              *)
OthersKept(c) ==
  /\ promised' \in [Ids -> Contents \cup {None}]
  /\ \A d \in Calls \ {c} : Creating(d) =>
       /\ promised'[call[d].id] = promised[call[d].id]
       /\ \A e \in ToSet(stored') : e.id = call[d].id => e \in ToSet(stored)

LEMMA CreationsMove ==
  ASSUME OutfitsSound, NEW c \in Calls, ListTyped(OutfitsPCs)', ListSound',
         drawn \subseteq drawn', OthersKept(c), \A d \in Calls \ {c} : AsBefore(d),
         CreationHolds(call'[c], stored', drawn', promised'),
         Creating(c)' => \A d \in Calls \ {c} : Creating(d) => call[d].id # call'[c].id
  PROVE  OutfitsSound'
  <1>1. OutfitsTypeOK'
    BY OutfitsTyped DEF OthersKept
  <1>2. ASSUME NEW d \in Calls \ {c}  PROVE CreationHolds(call'[d], stored', drawn', promised')
    <2>1. CreationHolds(call[d], stored, drawn, promised) /\ AsBefore(d)
      BY DEF OutfitsSound, CreationsHold
    <2>. QED BY <2>1 DEF CreationHolds, AsBefore, Creating, OthersKept
  <1>3. CreationsHold'
    BY <1>2 DEF CreationsHold
  <1>4. CreatingApart'
    BY DEF OutfitsSound, CreatingApart, Creating, AsBefore
  <1>. QED BY <1>1, <1>3, <1>4 DEF OutfitsSound

LEMMA OutfitsInitSound == OutfitsInit => OutfitsSound /\ adrift
  <1> SUFFICES ASSUME OutfitsInit  PROVE OutfitsSound /\ adrift
    OBVIOUS
  <1>1. ListTyped(OutfitsPCs) /\ ListSound /\ adrift /\ \A c \in Calls : call[c].pc = "idle"
    BY ListInitSound DEF OutfitsInit
  <1>2. OutfitsTypeOK
    BY <1>1, OutfitsTyped DEF OutfitsInit
  <1>3. CreationsHold /\ CreatingApart
    BY <1>1 DEF CreationsHold, CreationHolds, CreatingApart, Creating
  <1>. QED BY <1>1, <1>2, <1>3 DEF OutfitsSound

CreateStep(c) == \/ Create(c) \/ CreateServed(c) \/ CreateAnswered(c) \/ CreateFails(c)
                 \/ Put(c) \/ PutServed(c) \/ PutAnswered(c)

LEMMA OutfitsListSteps ==
  ASSUME OutfitsSound, NEW c \in Calls, ListStep(c), UNCHANGED promised
  PROVE  OutfitsSound' /\ \A d \in Calls \ {c} : AsBefore(d)
  <1>1. ListTyped(OutfitsPCs) /\ ListSound
    BY OutfitsTyped DEF OutfitsSound
  <1>2. CASE LoadStep(c)
    <2>1. /\ ListTyped(OutfitsPCs)' /\ ListSound' /\ UNCHANGED <<stored, drawn>>
          /\ call'[c].pc \in {"idle"} \cup LoadPCs
          /\ \A d \in Calls \ {c} : AsBefore(d)
      BY <1>1, <1>2, LoadSound
    <2>2. OthersKept(c)
      BY <2>1 DEF OutfitsSound, OutfitsTypeOK, OthersKept
    <2>. QED BY <2>1, <2>2, CreationsMove DEF CreationHolds, Creating
  <1>3. CASE DeleteStep(c)
    <2>1. /\ ListTyped(OutfitsPCs)' /\ ListSound' /\ drawn' = drawn
          /\ ToSet(stored') \subseteq ToSet(stored)
          /\ call'[c].pc \in {"idle"} \cup DeletePCs
          /\ \A d \in Calls \ {c} : AsBefore(d)
      BY <1>1, <1>3, DeleteSound
    <2>2. OthersKept(c)
      BY <2>1 DEF OutfitsSound, OutfitsTypeOK, OthersKept
    <2>. QED BY <2>1, <2>2, CreationsMove DEF CreationHolds, Creating
  <1>. QED BY <1>2, <1>3 DEF ListStep, LoadStep, DeleteStep

LEMMA OutfitsCreateSteps ==
  ASSUME OutfitsSound, NEW c \in Calls, CreateStep(c)
  PROVE  OutfitsSound' /\ \A d \in Calls \ {c} : AsBefore(d)
  <1>1. /\ call \in [Calls -> Call(OutfitsPCs)] /\ call[c] \in Call(OutfitsPCs)
        /\ stored \in Lists /\ shown \in Lists /\ drawn \subseteq Ids
        /\ status \in Statuses /\ adrift \in BOOLEAN
        /\ promised \in [Ids -> Contents \cup {None}]
        /\ ListSound /\ ListsDrawn /\ UncrossedLoad
        /\ None \notin Ids
    BY ListAssumption, OutfitsTyped DEF OutfitsSound, ListTyped, ListSound
  <1>2. CreationHolds(call[c], stored, drawn, promised)
    BY DEF OutfitsSound, CreationsHold
  <1>3. status' = status /\ adrift' \in BOOLEAN
    BY <1>1
    DEF CreateStep, Create, CreateServed, CreateAnswered, CreateFails, Put, PutServed, PutAnswered,
        Creating
  <1>4. ASSUME call' \in [Calls -> Call(OutfitsPCs)], \A d \in Calls \ {c} : AsBefore(d),
               call'[c].pc \in {"idle"} \cup CreatePCs, UncrossedLoad',
               stored' \in Lists, RowsGrow, drawn' \subseteq Ids,
               shown' \in Lists, IdsOf(shown') \subseteq drawn',
               OthersKept(c), CreationHolds(call'[c], stored', drawn', promised'),
               Creating(c)' => \A d \in Calls \ {c} : Creating(d) => call[d].id # call'[c].id
        PROVE  OutfitsSound' /\ \A d \in Calls \ {c} : AsBefore(d)
    <2>1. ListTyped(OutfitsPCs)'
      BY <1>1, <1>3, <1>4 DEF ListTyped
    <2>2. ListSound'
      BY <1>1, <1>4, MoveSound DEF ListHolds
    <2>. QED BY <1>4, <2>1, <2>2, CreationsMove DEF RowsGrow
  <1>5. ASSUME UNCHANGED <<stored, drawn, promised>>
        PROVE  stored' \in Lists /\ RowsGrow /\ drawn' \subseteq Ids /\ OthersKept(c)
    BY <1>1, <1>5 DEF RowsGrow, OthersKept, ListsDrawn
  <1>6. CASE Create(c)
    <2>1. PICK x \in Contents \cup {None} : StartWrite(c, "create", None, x)
      BY <1>6 DEF Create
    <2>2. /\ call' \in [Calls -> Call(OutfitsPCs)] /\ \A d \in Calls \ {c} : AsBefore(d)
          /\ call'[c].pc = "create" /\ call'[c].id = None /\ UncrossedLoad'
      BY <1>1, <2>1, StartWrites
    <2>3. UNCHANGED <<stored, drawn, promised, shown>>
      BY <1>6 DEF Create
    <2>. QED BY <1>1, <1>4, <1>5, <2>2, <2>3 DEF CreationHolds, Creating, ListsDrawn
  <1>7. CASE CreateServed(c)
    <2>1. PICK i \in Ids \ drawn :
            /\ stored' = Cons(NewEntry(i), stored)
            /\ drawn' = drawn \cup {i}
            /\ call' = [call EXCEPT ![c].pc = "create_answer", ![c].id = i]
            /\ promised' = [promised EXCEPT ![i] = call[c].content]
      BY <1>7 DEF CreateServed
    <2> DEFINE q == [call[c] EXCEPT !.pc = "create_answer", !.id = i]
    <2>2. /\ q \in Call(OutfitsPCs) /\ q.pc = "create_answer" /\ q.id = i
          /\ q.content = call[c].content /\ q.content \in Contents \cup {None}
      BY <1>1 DEF Call
    <2>3. call' = [call EXCEPT ![c] = q]
      BY <1>1, <2>1
    <2> HIDE DEF q
    <2>4. /\ call' \in [Calls -> Call(OutfitsPCs)] /\ call'[c] = q
          /\ \A d \in Calls \ {c} : AsBefore(d)
      BY <1>1, <2>2, <2>3, OneCall
    <2>5. UncrossedLoad'
      BY <1>1, <1>7, <2>2, <2>3, WriterCrosses DEF CreateServed, At, Writing, Loading
    <2>6. NewEntry(i) \in Entry /\ NewEntry(i).id = i
      BY DEF NewEntry, Entry
    <2>7. /\ stored' \in Lists /\ OneEach(stored')
          /\ IdsOf(stored') = {i} \cup IdsOf(stored)
          /\ ToSet(stored') = {NewEntry(i)} \cup ToSet(stored)
      BY <1>1, <2>1, <2>6, ConsPuts DEF ListsDrawn
    <2>8. promised' \in [Ids -> Contents \cup {None}] /\ promised'[i] = q.content
          /\ \A j \in Ids \ {i} : promised'[j] = promised[j]
      BY <1>1, <2>1, <2>2
    <2>9. \A d \in Calls : Creating(d) => call[d].id \in drawn /\ call[d].id # i
      BY DEF OutfitsSound, CreationsHold, CreationHolds, Creating
    <2>10. OthersKept(c)
      BY <1>1, <2>6, <2>7, <2>8, <2>9 DEF OthersKept
    <2>11. RowsGrow /\ drawn' \subseteq Ids /\ shown' \in Lists /\ IdsOf(shown') \subseteq drawn'
      BY <1>1, <1>7, <2>1, <2>7 DEF RowsGrow, ListsDrawn, CreateServed
    <2>12. CreationHolds(q, stored', drawn', promised')
      BY <2>1, <2>2, <2>8 DEF CreationHolds
    <2>. QED BY <1>4, <2>2, <2>4, <2>5, <2>7, <2>9, <2>10, <2>11, <2>12
  <1>8. CASE CreateAnswered(c) \/ PutAnswered(c)
    <2>1. /\ call' = [call EXCEPT ![c] = NoCall] /\ Creating(c)
          /\ UNCHANGED <<stored, drawn, promised>>
      BY <1>8 DEF CreateAnswered, PutAnswered, Done, Creating, At
    <2>2. UncrossedLoad'
      BY <1>1, <2>1, NoCallTyped, WriterCrosses DEF Creating, Writing, Loading
    <2>3. /\ call' \in [Calls -> Call(OutfitsPCs)] /\ call'[c] = NoCall
          /\ \A d \in Calls \ {c} : AsBefore(d)
      BY <1>1, <2>1, NoCallTyped, OneCall
    <2> DEFINE e == [id |-> call[c].id, content |-> call[c].content]
    <2>4. call[c].id \in drawn /\ e \in Entry /\ e.id = call[c].id
      BY <1>1, <1>2, <2>1 DEF CreationHolds, Creating, Entry, Call
    <2>5. shown' = Cons(e, shown)
      BY <1>8 DEF CreateAnswered, PutAnswered, ShowCreated
    <2> HIDE DEF e
    <2>6. shown' \in Lists /\ IdsOf(shown') \subseteq drawn'
      BY <1>1, <2>1, <2>4, <2>5, ConsPuts DEF ListsDrawn
    <2>. QED
      BY <1>4, <1>5, <2>1, <2>2, <2>3, <2>6, NoCallTyped DEF CreationHolds, Creating
  <1>9. CASE CreateFails(c)
    <2>1. call' = [call EXCEPT ![c] = NoCall] /\ UNCHANGED <<stored, drawn, shown>>
      BY <1>9 DEF CreateFails, Done
    <2>2. UncrossedLoad'
      BY <1>1, <1>9, <2>1, NoCallTyped, WriterCrosses DEF CreateFails, Writing, Loading
    <2>3. /\ call' \in [Calls -> Call(OutfitsPCs)] /\ call'[c] = NoCall
          /\ \A d \in Calls \ {c} : AsBefore(d)
      BY <1>1, <2>1, NoCallTyped, OneCall
    <2>4. promised' \in [Ids -> Contents \cup {None}]
      BY <1>1, <1>9 DEF CreateFails
    <2>5. ASSUME NEW d \in Calls \ {c}, Creating(d)
          PROVE  promised'[call[d].id] = promised[call[d].id]
      <3>1. call[d].id \in Ids
        BY <1>1, <2>5 DEF OutfitsSound, CreationsHold, CreationHolds, Creating
      <3>2. call[c].id # call[d].id
        <4>1. CASE Creating(c)
          BY <2>5, <4>1 DEF OutfitsSound, CreatingApart
        <4>2. CASE call[c].pc = "create"
          BY <1>1, <1>2, <3>1, <4>2 DEF CreationHolds
        <4>. QED BY <1>9, <4>1, <4>2 DEF CreateFails, Creating
      <3>. QED BY <1>9, <3>1, <3>2 DEF CreateFails
    <2>6. OthersKept(c) /\ RowsGrow
      BY <1>1, <2>1, <2>4, <2>5 DEF OthersKept, RowsGrow, ListsDrawn
    <2>. QED
      BY <1>1, <1>4, <2>1, <2>2, <2>3, <2>6, NoCallTyped DEF CreationHolds, Creating, ListsDrawn
  <1>10. CASE Put(c)
    <2> DEFINE q == [call[c] EXCEPT !.pc = "put"]
    <2>1. /\ q \in Call(OutfitsPCs) /\ q.pc = "put" /\ q.id = call[c].id
          /\ q.content = call[c].content
      BY <1>1 DEF Call
    <2>2. call' = [call EXCEPT ![c] = q] /\ UNCHANGED <<stored, drawn, shown, promised>>
      BY <1>1, <1>10 DEF Put, Goto
    <2> HIDE DEF q
    <2>3. UncrossedLoad'
      BY <1>1, <1>10, <2>1, <2>2, WriterCrosses DEF Put, At, Writing, Loading
    <2>4. /\ call' \in [Calls -> Call(OutfitsPCs)] /\ call'[c] = q
          /\ \A d \in Calls \ {c} : AsBefore(d)
      BY <1>1, <2>1, <2>2, OneCall
    <2>5. CreationHolds(q, stored', drawn', promised')
      BY <1>2, <1>10, <2>1, <2>2 DEF Put, At, CreationHolds
    <2>6. \A d \in Calls \ {c} : Creating(d) => call[d].id # q.id
      BY <1>10, <2>1 DEF Put, At, Creating, OutfitsSound, CreatingApart
    <2>. QED BY <1>1, <1>4, <1>5, <2>1, <2>2, <2>3, <2>4, <2>5, <2>6 DEF ListsDrawn
  <1>11. CASE PutServed(c)
    <2> DEFINE q == [call[c] EXCEPT !.pc = "put_answer"]
    <2>1. /\ q \in Call(OutfitsPCs) /\ q.pc = "put_answer" /\ q.id = call[c].id
          /\ q.content = call[c].content
      BY <1>1 DEF Call
    <2>2. call' = [call EXCEPT ![c] = q] /\ UNCHANGED <<drawn, shown, promised>>
      BY <1>1, <1>11 DEF PutServed, Goto
    <2> HIDE DEF q
    <2>3. UncrossedLoad'
      BY <1>1, <1>11, <2>1, <2>2, WriterCrosses DEF PutServed, At, Writing, Loading
    <2>4. /\ call' \in [Calls -> Call(OutfitsPCs)] /\ call'[c] = q
          /\ \A d \in Calls \ {c} : AsBefore(d)
      BY <1>1, <2>1, <2>2, OneCall
    <2>5. \A d \in Calls \ {c} : Creating(d) => call[d].id # q.id
      BY <1>11, <2>1 DEF PutServed, At, Creating, OutfitsSound, CreatingApart
    <2>6. q.id \in drawn /\ q.id \in Ids /\ q.content \in Contents \cup {None}
          /\ promised[q.id] = q.content
      BY <1>1, <1>2, <1>11, <2>1 DEF PutServed, At, CreationHolds, Call
    <2>7. /\ stored' \in Lists /\ OneEach(stored') /\ IdsOf(stored') = IdsOf(stored)
          /\ \A e \in ToSet(stored') :
               IF e.id = q.id THEN e = [id |-> q.id, content |-> q.content] ELSE e \in ToSet(stored)
      BY <1>1, <1>11, <2>1, <2>6, WithContentKeeps DEF PutServed, ListsDrawn
    <2>8. OthersKept(c) /\ RowsGrow
      BY <1>1, <2>2, <2>5, <2>7 DEF OthersKept, RowsGrow, ListsDrawn
    <2>9. CreationHolds(q, stored', drawn', promised')
      BY <2>1, <2>2, <2>6, <2>7 DEF CreationHolds
    <2>. QED BY <1>1, <1>4, <2>1, <2>2, <2>3, <2>4, <2>5, <2>7, <2>8, <2>9 DEF ListsDrawn
  <1>. QED BY <1>6, <1>7, <1>8, <1>9, <1>10, <1>11 DEF CreateStep

LEMMA OutfitsNextSound ==
  ASSUME OutfitsSound, [OutfitsNext]_outfitsVars
  PROVE  OutfitsSound'
  <1>1. CASE UNCHANGED outfitsVars
    BY <1>1
    DEF outfitsVars, OutfitsSound, OutfitsTypeOK, ListSound, ListsDrawn, ListHolds, CreationsHold,
        CreatingApart, Creating, UncrossedLoad, Loading, Writing, At
  <1>2. CASE OutfitsNext
    BY <1>2, OutfitsListSteps, OutfitsCreateSteps DEF OutfitsNext, CreateStep
  <1>. QED BY <1>1, <1>2

(* Every reachable state has the declared types; the API has each outfit    *)
(* once, a load that crosses nothing reads what stays there, and two        *)
(* creations never have the same outfit.                                    *)
THEOREM OutfitsSoundTheorem == OutfitsSpec => []OutfitsSound
  BY OutfitsInitSound, OutfitsNextSound, PTL DEF OutfitsSpec

(* Whatever createOutfit has returned as created has the items that were    *)
(* selected for it, however creations, loads and deletions overlap and      *)
(* whichever of their requests fail (outfits_cubit.dart:25-37).             *)
THEOREM CreatedIsCompleteTheorem == OutfitsSpec => []CreatedIsComplete
  <1>1. OutfitsInit => CreatedIsComplete
    <2> SUFFICES ASSUME OutfitsInit, NEW e \in ToSet(stored)
                 PROVE  promised[e.id] = None
      BY DEF CreatedIsComplete
    <2>1. e.id \in Ids
      BY OutfitsInitSound, EntriesTyped DEF OutfitsSound, OutfitsTypeOK, Entry
    <2>. QED BY <2>1 DEF OutfitsInit
  <1>2. CreatedIsComplete /\ OutfitsSound /\ [OutfitsNext]_outfitsVars => CreatedIsComplete'
    <2> SUFFICES ASSUME CreatedIsComplete, OutfitsSound, [OutfitsNext]_outfitsVars,
                        NEW e \in ToSet(stored')
                 PROVE  \/ e.content = promised'[e.id] \/ promised'[e.id] = None
                        \/ \E d \in Calls : call'[d].id = e.id /\ Creating(d)'
      BY DEF CreatedIsComplete
    <2> DEFINE Complete(x) == \/ x.content = promised[x.id] \/ promised[x.id] = None
                              \/ \E d \in Calls : call[d].id = x.id /\ Creating(d)
    <2>1. CASE UNCHANGED outfitsVars
      BY <2>1 DEF outfitsVars, CreatedIsComplete, Creating
    <2>2. ASSUME NEW c \in Calls, (ListStep(c) /\ UNCHANGED promised) \/ CreateStep(c)
          PROVE  \/ e.content = promised'[e.id] \/ promised'[e.id] = None
                 \/ \E d \in Calls : call'[d].id = e.id /\ Creating(d)'
      <3>1. \A d \in Calls \ {c} : AsBefore(d)
        BY <2>2, OutfitsListSteps, OutfitsCreateSteps
      <3>2. /\ stored \in Lists /\ IdsOf(stored) \subseteq drawn
            /\ call \in [Calls -> Call(OutfitsPCs)] /\ call[c] \in Call(OutfitsPCs)
            /\ promised \in [Ids -> Contents \cup {None}]
            /\ CreationHolds(call[c], stored, drawn, promised) /\ None \notin Ids
            /\ drawn \subseteq Ids /\ ListTyped(OutfitsPCs) /\ ListSound
        BY ListAssumption, OutfitsTyped
        DEF OutfitsSound, ListTyped, ListSound, ListsDrawn, CreationsHold
      <3>3. \A x \in ToSet(stored) : x \in Entry /\ x.id \in Ids /\ x.id \in drawn /\ Complete(x)
        <4>1. \A x \in ToSet(stored) : Complete(x)
          BY DEF CreatedIsComplete
        <4>2. \A x \in ToSet(stored) : x \in Entry
          BY <3>2, EntriesTyped
        <4>3. \A x \in ToSet(stored) : x.id \in Ids /\ x.id \in drawn
          BY <3>2, <4>2 DEF IdsOf, Entry
        <4> HIDE DEF Complete
        <4>. QED BY <4>1, <4>2, <4>3
      <3>4. ASSUME Creating(c) => Creating(c)' /\ call'[c].id = call[c].id,
                   e \in ToSet(stored), promised'[e.id] = promised[e.id]
            PROVE  \/ e.content = promised'[e.id] \/ promised'[e.id] = None
                   \/ \E d \in Calls : call'[d].id = e.id /\ Creating(d)'
        BY <3>1, <3>3, <3>4 DEF AsBefore, Creating
      <3>5. CASE ListStep(c) /\ UNCHANGED promised
        <4>1. ToSet(stored') \subseteq ToSet(stored) /\ call[c].pc \notin CreatePCs
          BY <3>2, <3>5, LoadSound, DeleteSound DEF ListStep, LoadStep, DeleteStep
        <4>. QED BY <3>4, <3>5, <4>1 DEF Creating
      <3>6. CASE Create(c)
        BY <3>4, <3>6 DEF Create, StartWrite, At, Creating
      <3>7. CASE CreateServed(c)
        <4>1. PICK i \in Ids \ drawn :
                /\ stored' = Cons(NewEntry(i), stored)
                /\ call' = [call EXCEPT ![c].pc = "create_answer", ![c].id = i]
                /\ promised' = [promised EXCEPT ![i] = call[c].content]
          BY <3>7 DEF CreateServed
        <4>2. NewEntry(i) \in Entry /\ NewEntry(i).id = i
          BY DEF NewEntry, Entry
        <4>3. ToSet(stored') = {NewEntry(i)} \cup ToSet(stored)
          BY <3>2, <4>1, <4>2, ConsPuts
        <4>4. call'[c].id = i /\ Creating(c)' /\ ~Creating(c)
          BY <3>2, <3>7, <4>1 DEF Call, CreateServed, At, Creating
        <4>5. CASE e \in ToSet(stored)
          <5>1. promised'[e.id] = promised[e.id]
            BY <3>2, <3>3, <4>1, <4>5
          <5>. QED BY <3>4, <4>4, <4>5, <5>1
        <4>. QED BY <4>2, <4>3, <4>4, <4>5
      <3>8. CASE CreateAnswered(c) \/ PutAnswered(c)
        <4>1. e \in ToSet(stored) /\ promised' = promised /\ Creating(c)
          BY <3>8 DEF CreateAnswered, PutAnswered, At, Creating
        <4>2. CASE e.id = call[c].id
          BY <3>2, <3>8, <4>1, <4>2 DEF CreateAnswered, PutAnswered, At, CreationHolds, Creating
        <4>3. CASE e.id # call[c].id
          BY <3>1, <3>3, <4>1, <4>3 DEF AsBefore, Creating
        <4>. QED BY <4>2, <4>3
      <3>9. CASE CreateFails(c)
        <4>1. /\ e \in ToSet(stored) /\ e.id \in Ids
              /\ promised'[e.id] = IF e.id = call[c].id THEN None ELSE promised[e.id]
          BY <3>3, <3>9 DEF CreateFails
        <4>2. CASE e.id # call[c].id
          BY <3>1, <3>3, <4>1, <4>2 DEF AsBefore, Creating
        <4>. QED BY <4>1, <4>2
      <3>10. CASE Put(c)
        <4>1. Creating(c)' /\ call'[c].id = call[c].id
          BY <3>2, <3>10 DEF Put, Goto, Call, Creating
        <4>. QED BY <3>4, <3>10, <4>1 DEF Put
      <3>11. CASE PutServed(c)
        <4>1. Creating(c)' /\ call'[c].id = call[c].id
          BY <3>2, <3>11 DEF PutServed, Goto, Call, Creating
        <4>2. call[c].id \in Ids /\ call[c].content \in Contents \cup {None}
          BY <3>2, <3>11 DEF PutServed, At, CreationHolds, Call
        <4>3. e.id # call[c].id => e \in ToSet(stored)
          BY <3>2, <3>11, <4>2, WithContentKeeps DEF PutServed
        <4>. QED BY <3>4, <3>11, <4>1, <4>3 DEF PutServed
      <3>. QED BY <2>2, <3>5, <3>6, <3>7, <3>8, <3>9, <3>10, <3>11 DEF CreateStep
    <2>. QED BY <2>1, <2>2 DEF OutfitsNext, CreateStep
  <1>. QED BY <1>1, <1>2, OutfitsSoundTheorem, PTL DEF OutfitsSpec

-----------------------------------------------------------------------------
(* What is shown.                                                           *)

ShownOnce == OneEach(shown)

OutfitsAreStored ==
  \A e \in ToSet(shown) \ ToSet(stored) :
    \E c \in Calls : call[c].id = e.id /\ At(c, "delete_answer")

OutfitsAreShown ==
  \A i \in IdsOf(stored) \ IdsOf(shown) : \E c \in Calls : call[c].id = i /\ Creating(c)

(* The row that a creation has made so far.                                 *)
Created(q) == [id |-> q.id, content |-> IF q.pc = "put_answer" THEN q.content ELSE None]

(* An outfit that is being created is stored and not shown, so nobody       *)
(* deletes it.                                                              *)
CreatedNotShown ==
  \A c \in Calls : Creating(c) =>
    /\ call[c].id \notin IdsOf(shown)
    /\ Created(call[c]) \in ToSet(stored)
    /\ \A d \in Calls : call[d].pc \in DeletePCs => call[d].id # call[c].id

OutfitsAgree == ShownOnce /\ OutfitsAreStored /\ OutfitsAreShown /\ CreatedNotShown

(* A step that changes neither list.                                        *)
LEMMA OutfitsStay ==
  ASSUME OutfitsSound, OutfitsAgree, UNCHANGED <<stored, shown>>, NEW c \in Calls,
         \A d \in Calls \ {c} : AsBefore(d), ~At(c, "delete_answer"),
         Creating(c)' <=> Creating(c),
         Creating(c) => call'[c].id = call[c].id /\ Created(call'[c]) = Created(call[c]),
         call'[c].pc \in DeletePCs => call'[c].id \in IdsOf(shown)
  PROVE  OutfitsAgree'
  <1>1. ShownOnce'
    BY DEF OutfitsAgree, ShownOnce
  <1>2. OutfitsAreStored'
    BY DEF OutfitsAgree, OutfitsAreStored, AsBefore, At
  <1>3. OutfitsAreShown'
    BY DEF OutfitsAgree, OutfitsAreShown, AsBefore, Creating
  <1>4. ASSUME NEW a \in Calls, Creating(a)'
        PROVE  /\ call'[a].id \notin IdsOf(shown')
               /\ Created(call'[a]) \in ToSet(stored')
               /\ \A d \in Calls : call'[d].pc \in DeletePCs => call'[d].id # call'[a].id
    <2>1. Creating(a) /\ call'[a].id = call[a].id /\ Created(call'[a]) = Created(call[a])
      BY <1>4 DEF AsBefore, Creating, Created
    <2>2. /\ call[a].id \notin IdsOf(shown) /\ Created(call[a]) \in ToSet(stored)
          /\ \A d \in Calls : call[d].pc \in DeletePCs => call[d].id # call[a].id
      BY <2>1 DEF OutfitsAgree, CreatedNotShown
    <2>. QED BY <2>1, <2>2 DEF AsBefore
  <1>. QED BY <1>1, <1>2, <1>3, <1>4 DEF OutfitsAgree, CreatedNotShown

LEMMA OutfitsLoadAgree ==
  ASSUME OutfitsSound, ~adrift => OutfitsAgree, NEW c \in Calls, ~adrift', LoadStep(c)
  PROVE  OutfitsAgree'
  <1>1. ListTyped(OutfitsPCs) /\ ListSound
    BY OutfitsTyped DEF OutfitsSound
  <1>2. /\ call[c].pc \in {"idle"} \cup LoadPCs /\ call'[c].pc \in {"idle"} \cup LoadPCs
        /\ \A d \in Calls \ {c} : AsBefore(d)
        /\ stored' = stored
    BY <1>1, LoadSound
  <1>3. CASE LoadAnswered(c)
    <2>1. shown' = stored /\ \A d \in Calls : ~Writing(d)
      BY <1>1, <1>3, LoadShows
    <2>2. \A d \in Calls : ~Creating(d)'
      BY <1>2, <2>1 DEF Creating, Writing, Loading, AsBefore
    <2>. QED
      BY <1>1, <1>2, <2>1, <2>2
      DEF OutfitsAgree, ShownOnce, OutfitsAreStored, OutfitsAreShown, CreatedNotShown, ListSound,
          ListsDrawn
  <1>4. CASE Load(c) \/ LoadServed(c) \/ LoadFails(c)
    <2>1. UNCHANGED <<stored, shown, adrift>>
      BY <1>4 DEF Load, LoadServed, LoadFails
    <2>. QED BY <1>2, <2>1, OutfitsStay DEF At, Creating
  <1>. QED BY <1>3, <1>4 DEF LoadStep

LEMMA OutfitsDeleteAgree ==
  ASSUME OutfitsSound, OutfitsAgree, NEW c \in Calls, ~adrift', DeleteStep(c)
  PROVE  OutfitsAgree'
  <1>1. ListTyped(OutfitsPCs) /\ ListSound
    BY OutfitsTyped DEF OutfitsSound
  <1>2. \A d \in Calls \ {c} : AsBefore(d)
    BY <1>1, DeleteSound
  <1>3. CASE /\ UNCHANGED <<stored, shown>> /\ call[c].pc # "delete_answer"
             /\ \/ call'[c].pc = "idle"
                \/ call'[c].pc = "delete" /\ call'[c].id \in IdsOf(shown)
    <2>1. call[c].pc \in {"idle"} \cup DeletePCs
      BY <1>1, DeleteSound
    <2>. QED BY <1>2, <1>3, <2>1, OutfitsStay DEF At, Creating
  <1>4. CASE /\ call[c].pc = "delete" /\ call'[c].pc = "delete_answer"
             /\ call'[c].id = call[c].id /\ shown' = shown
             /\ ToSet(stored') = {e \in ToSet(stored) : e.id # call[c].id}
             /\ IdsOf(stored') = IdsOf(stored) \ {call[c].id}
    <2>1. OutfitsAreStored'
      BY <1>2, <1>4 DEF OutfitsAgree, OutfitsAreStored, AsBefore, At
    <2>2. OutfitsAreShown'
      BY <1>2, <1>4 DEF OutfitsAgree, OutfitsAreShown, AsBefore, Creating
    <2>3. ASSUME NEW a \in Calls, Creating(a)'
          PROVE  /\ call'[a].id \notin IdsOf(shown')
                 /\ Created(call'[a]) \in ToSet(stored')
                 /\ \A d \in Calls : call'[d].pc \in DeletePCs => call'[d].id # call'[a].id
      <3>1. a # c /\ Creating(a) /\ AsBefore(a)
        BY <1>2, <1>4, <2>3 DEF AsBefore, Creating
      <3>2. /\ call[a].id \notin IdsOf(shown) /\ Created(call[a]) \in ToSet(stored)
            /\ \A d \in Calls : call[d].pc \in DeletePCs => call[d].id # call[a].id
        BY <3>1 DEF OutfitsAgree, CreatedNotShown
      <3>3. Created(call'[a]) = Created(call[a]) /\ Created(call[a]).id = call[a].id
        BY <3>1 DEF AsBefore, Created
      <3>. QED BY <1>2, <1>4, <3>1, <3>2, <3>3 DEF AsBefore
    <2>. QED BY <1>4, <2>1, <2>2, <2>3 DEF OutfitsAgree, ShownOnce, CreatedNotShown
  <1>5. CASE /\ call[c].pc = "delete_answer" /\ call'[c].pc = "idle"
             /\ stored' = stored /\ call[c].id \notin IdsOf(stored)
             /\ ToSet(shown') = {e \in ToSet(shown) : e.id # call[c].id}
             /\ IdsOf(shown') = IdsOf(shown) \ {call[c].id}
             /\ OneEach(shown) => OneEach(shown')
    <2>1. OutfitsAreStored'
      BY <1>2, <1>5 DEF OutfitsAgree, OutfitsAreStored, AsBefore, At
    <2>2. OutfitsAreShown'
      BY <1>2, <1>5 DEF OutfitsAgree, OutfitsAreShown, AsBefore, Creating
    <2>3. CreatedNotShown'
      BY <1>2, <1>5 DEF OutfitsAgree, CreatedNotShown, AsBefore, Creating, Created
    <2>. QED BY <1>5, <2>1, <2>2, <2>3 DEF OutfitsAgree, ShownOnce
  <1>. QED BY <1>1, <1>3, <1>4, <1>5, DeleteDoes

LEMMA OutfitsCreateAgree ==
  ASSUME OutfitsSound, OutfitsAgree, NEW c \in Calls, ~adrift', CreateStep(c)
  PROVE  OutfitsAgree'
  <1>1. /\ call \in [Calls -> Call(OutfitsPCs)] /\ call[c] \in Call(OutfitsPCs)
        /\ stored \in Lists /\ shown \in Lists /\ ListsDrawn
        /\ CreationHolds(call[c], stored, drawn, promised)
        /\ drawn \subseteq Ids
        /\ \A d \in Calls \ {c} : AsBefore(d)
    BY OutfitsCreateSteps DEF OutfitsSound, OutfitsTypeOK, ListSound, CreationsHold
  <1>2. CASE Create(c)
    <2>1. PICK x \in Contents \cup {None} : StartWrite(c, "create", None, x)
      BY <1>2 DEF Create
    <2>2. call'[c].pc = "create"
      BY <1>1, <2>1, StartWrites
    <2>3. ~At(c, "delete_answer") /\ ~Creating(c) /\ ~Creating(c)'
      BY <2>1, <2>2 DEF StartWrite, At, Creating
    <2>. QED BY <1>1, <1>2, <2>2, <2>3, OutfitsStay DEF Create
  <1>3. CASE CreateServed(c)
    <2>1. PICK i \in Ids \ drawn :
            /\ stored' = Cons(NewEntry(i), stored)
            /\ call' = [call EXCEPT ![c].pc = "create_answer", ![c].id = i]
      BY <1>3 DEF CreateServed
    <2>2. NewEntry(i) \in Entry /\ NewEntry(i).id = i
      BY DEF NewEntry, Entry
    <2>3. /\ ToSet(stored') = {NewEntry(i)} \cup ToSet(stored)
          /\ IdsOf(stored') = {i} \cup IdsOf(stored)
      BY <1>1, <2>1, <2>2, ConsPuts
    <2>4. /\ call'[c].id = i /\ call'[c].pc = "create_answer" /\ call[c].pc = "create"
          /\ shown' = shown
      BY <1>1, <1>3, <2>1 DEF Call, CreateServed, At
    <2>5. OutfitsAreStored'
      BY <1>1, <2>3, <2>4 DEF OutfitsAgree, OutfitsAreStored, AsBefore, At
    <2>6. OutfitsAreShown'
      BY <1>1, <2>3, <2>4 DEF OutfitsAgree, OutfitsAreShown, AsBefore, Creating
    <2>7. ASSUME NEW a \in Calls, Creating(a)'
          PROVE  /\ call'[a].id \notin IdsOf(shown')
                 /\ Created(call'[a]) \in ToSet(stored')
                 /\ \A d \in Calls : call'[d].pc \in DeletePCs => call'[d].id # call'[a].id
      <3>1. CASE a = c
        <4>1. Created(call'[c]) = NewEntry(i)
          BY <2>4 DEF Created, NewEntry
        <4>2. \A d \in Calls : call'[d].pc \in DeletePCs => call'[d].id \in drawn
          BY <1>1, <2>4 DEF OutfitsSound, ListSound, ListHolds, AsBefore
        <4>. QED BY <1>1, <2>3, <2>4, <3>1, <4>1, <4>2 DEF ListsDrawn
      <3>2. CASE a # c
        <4>1. Creating(a) /\ AsBefore(a) /\ Created(call'[a]) = Created(call[a])
          BY <1>1, <2>7, <3>2 DEF AsBefore, Creating, Created
        <4>2. /\ call[a].id \notin IdsOf(shown) /\ Created(call[a]) \in ToSet(stored)
              /\ \A d \in Calls : call[d].pc \in DeletePCs => call[d].id # call[a].id
          BY <4>1 DEF OutfitsAgree, CreatedNotShown
        <4>. QED BY <1>1, <2>3, <2>4, <4>1, <4>2 DEF AsBefore
      <3>. QED BY <3>1, <3>2
    <2>. QED BY <2>4, <2>5, <2>6, <2>7 DEF OutfitsAgree, ShownOnce, CreatedNotShown
  <1>4. CASE CreateAnswered(c) \/ PutAnswered(c)
    <2> DEFINE e == [id |-> call[c].id, content |-> call[c].content]
    <2>1. call'[c].pc = "idle" /\ Creating(c) /\ stored' = stored /\ shown' = Cons(e, shown)
      BY <1>1, <1>4
      DEF CreateAnswered, PutAnswered, ShowCreated, Done, NoCall, At, Creating
    <2>2. e \in Entry /\ e.id = call[c].id /\ Created(call[c]) = e
      BY <1>1, <1>4, <2>1
      DEF Entry, Call, CreationHolds, Creating, Created, CreateAnswered, PutAnswered, At
    <2> HIDE DEF e
    <2>3. e.id \notin IdsOf(shown) /\ e \in ToSet(stored)
      BY <2>1, <2>2 DEF OutfitsAgree, CreatedNotShown
    <2>4. /\ OneEach(shown') /\ ToSet(shown') = {e} \cup ToSet(shown)
          /\ IdsOf(shown') = {e.id} \cup IdsOf(shown)
      BY <1>1, <2>1, <2>2, <2>3, ConsPuts DEF OutfitsAgree, ShownOnce
    <2>5. OutfitsAreStored'
      BY <1>1, <2>1, <2>3, <2>4 DEF OutfitsAgree, OutfitsAreStored, AsBefore, At, Creating
    <2>6. OutfitsAreShown'
      BY <1>1, <2>1, <2>2, <2>4 DEF OutfitsAgree, OutfitsAreShown, AsBefore, Creating
    <2>7. ASSUME NEW a \in Calls, Creating(a)'
          PROVE  /\ call'[a].id \notin IdsOf(shown')
                 /\ Created(call'[a]) \in ToSet(stored')
                 /\ \A d \in Calls : call'[d].pc \in DeletePCs => call'[d].id # call'[a].id
      <3>1. a # c /\ Creating(a) /\ AsBefore(a) /\ Created(call'[a]) = Created(call[a])
        BY <1>1, <2>1, <2>7 DEF AsBefore, Creating, Created
      <3>2. /\ call[a].id \notin IdsOf(shown) /\ Created(call[a]) \in ToSet(stored)
            /\ \A d \in Calls : call[d].pc \in DeletePCs => call[d].id # call[a].id
        BY <3>1 DEF OutfitsAgree, CreatedNotShown
      <3>3. call[a].id # e.id
        BY <2>1, <2>2, <3>1 DEF OutfitsSound, CreatingApart
      <3>. QED BY <1>1, <2>1, <2>4, <3>1, <3>2, <3>3 DEF AsBefore
    <2>. QED BY <2>4, <2>5, <2>6, <2>7 DEF OutfitsAgree, ShownOnce, CreatedNotShown
  <1>5. CASE CreateFails(c)
    <2>1. call'[c].pc = "idle" /\ ~At(c, "delete_answer") /\ ~Creating(c)
      BY <1>1, <1>5 DEF CreateFails, Done, NoCall, At
    <2>. QED BY <1>1, <1>5, <2>1, OutfitsStay DEF CreateFails, Creating
  <1>6. CASE Put(c)
    <2>1. /\ call'[c].pc = "put" /\ call'[c].id = call[c].id /\ call[c].pc = "create_answer"
      BY <1>1, <1>6 DEF Put, Goto, At, Call
    <2>2. Creating(c) /\ Creating(c)' /\ Created(call'[c]) = Created(call[c])
      BY <2>1 DEF Creating, Created
    <2>. QED BY <1>1, <1>6, <2>1, <2>2, OutfitsStay DEF Put, At
  <1>7. CASE PutServed(c)
    <2> DEFINE i == call[c].id
               x == call[c].content
    <2>1. /\ call'[c].pc = "put_answer" /\ call'[c].id = i /\ call'[c].content = x
          /\ call[c].pc = "put" /\ shown' = shown
      BY <1>1, <1>7 DEF PutServed, Goto, At, Call
    <2>2. i \in Ids /\ x \in Contents \cup {None} /\ i \in IdsOf(stored) /\ Creating(c)
      BY <1>1, <1>7, <2>1 DEF PutServed, CreationHolds, Call, Creating
    <2>3. /\ IdsOf(stored') = IdsOf(stored)
          /\ \A e \in ToSet(stored') : e.id = i => e = [id |-> i, content |-> x]
          /\ \A e \in ToSet(stored) : e.id # i => e \in ToSet(stored')
      BY <1>1, <1>7, <2>2, WithContentKeeps DEF PutServed
    <2>4. i \notin IdsOf(shown)
      BY <2>2 DEF OutfitsAgree, CreatedNotShown
    <2>5. OutfitsAreStored'
      <3>1. \A e \in ToSet(shown) : e.id # i
        BY <2>4 DEF IdsOf
      <3>. QED BY <1>1, <2>1, <2>3, <3>1 DEF OutfitsAgree, OutfitsAreStored, AsBefore, At
    <2>6. OutfitsAreShown'
      BY <1>1, <2>1, <2>2, <2>3 DEF OutfitsAgree, OutfitsAreShown, AsBefore, Creating
    <2>7. ASSUME NEW a \in Calls, Creating(a)'
          PROVE  /\ call'[a].id \notin IdsOf(shown')
                 /\ Created(call'[a]) \in ToSet(stored')
                 /\ \A d \in Calls : call'[d].pc \in DeletePCs => call'[d].id # call'[a].id
      <3>1. Creating(a) /\ call'[a].id = call[a].id
        BY <1>1, <2>1, <2>2, <2>7 DEF AsBefore, Creating
      <3>2. /\ call[a].id \notin IdsOf(shown) /\ Created(call[a]) \in ToSet(stored)
            /\ \A d \in Calls : call[d].pc \in DeletePCs => call[d].id # call[a].id
        BY <3>1 DEF OutfitsAgree, CreatedNotShown
      <3>3. Created(call'[a]) \in ToSet(stored')
        <4>1. CASE a = c
          <5>1. \E e \in ToSet(stored') : e.id = i
            BY <2>2, <2>3 DEF IdsOf
          <5>. QED BY <2>1, <2>3, <4>1, <5>1 DEF Created
        <4>2. CASE a # c
          <5>1. Created(call'[a]) = Created(call[a]) /\ Created(call[a]).id = call[a].id
            BY <1>1, <4>2 DEF AsBefore, Created
          <5>2. call[a].id # i
            BY <2>2, <3>1, <4>2 DEF OutfitsSound, CreatingApart
          <5>. QED BY <2>3, <3>2, <5>1, <5>2
        <4>. QED BY <4>1, <4>2
      <3>. QED BY <1>1, <2>1, <3>1, <3>2, <3>3 DEF AsBefore
    <2>. QED BY <2>1, <2>5, <2>6, <2>7 DEF OutfitsAgree, ShownOnce, CreatedNotShown
  <1>. QED BY <1>2, <1>3, <1>4, <1>5, <1>6, <1>7 DEF CreateStep

LEMMA OutfitsNextAgree ==
  ASSUME OutfitsSound, ~adrift => OutfitsAgree, [OutfitsNext]_outfitsVars, ~adrift'
  PROVE  OutfitsAgree'
  <1>1. CASE UNCHANGED outfitsVars
    BY <1>1
    DEF outfitsVars, OutfitsAgree, ShownOnce, OutfitsAreStored, OutfitsAreShown, CreatedNotShown,
        Creating, At
  <1>2. ASSUME NEW c \in Calls, DeleteStep(c) \/ CreateStep(c)
        PROVE  OutfitsAgree'
    <2>1. ~adrift
      BY <1>2
      DEF DeleteStep, Delete, DeleteServed, DeleteAnswered, DeleteFails,
          CreateStep, Create, CreateServed, CreateAnswered, CreateFails, Put, PutServed, PutAnswered
    <2>. QED BY <1>2, <2>1, OutfitsDeleteAgree, OutfitsCreateAgree
  <1>. QED
    BY <1>1, <1>2, OutfitsLoadAgree
    DEF OutfitsNext, ListStep, LoadStep, DeleteStep, CreateStep

(* What the cubit makes of the answers agrees with what the API has, in     *)
(* whatever order they come, unless a load has crossed a change or a        *)
(* creation or deletion has failed half-way (outfits_cubit.dart:25-46).     *)
THEOREM OutfitsShownTheorem == OutfitsSpec => []OutfitsShownAreStored
  <1>1. OutfitsInit => (~adrift => OutfitsAgree)
    BY OutfitsInitSound
  <1>2. OutfitsSound /\ (~adrift => OutfitsAgree) /\ [OutfitsNext]_outfitsVars
          => (~adrift => OutfitsAgree)'
    BY OutfitsNextAgree
  <1>3. (~adrift => OutfitsAgree) => OutfitsShownAreStored
    BY DEF OutfitsAgree, ShownOnce, OneEach, OutfitsAreStored, OutfitsAreShown, OutfitsShownAreStored
  <1>. QED BY <1>1, <1>2, <1>3, OutfitsSoundTheorem, PTL DEF OutfitsSpec

-----------------------------------------------------------------------------
(* WardrobeCubit: what holds of the lists, the methods and the photos at    *)
(* any time.                                                                *)

WardrobePCs == {"idle"} \cup LoadPCs \cup DeletePCs \cup AddPCs \cup UploadPCs

USE DEF WardrobePCs, AddPCs, UploadPCs, Photos

(* The item exists and the cubit has not heard of it yet.                   *)
Adding(c) == At(c, "add_answer")

(* A photo that was picked for an item goes to that item, unless its POST   *)
(* has got no answer.                                                       *)
PhotoHolds(q, ids, picked, lost) ==
  /\ q.pc = "add" => q.id = None
  /\ q.pc = "add" /\ q.content # None => picked[q.content] = None /\ q.content \notin lost
  /\ q.pc = "add_answer" => q.id \in ids
  /\ q.pc = "add_answer" /\ q.content # None =>
       picked[q.content] = q.id /\ q.content \notin lost
  /\ q.pc \in UploadPCs => /\ q.id \in ids /\ q.content # None
                           /\ q.content \notin lost => picked[q.content] = q.id

PhotosHold == \A c \in Calls : PhotoHolds(call[c], drawn, pickedFor, unanswered)

Carries(q) == q.pc \in AddPCs \cup UploadPCs /\ q.content # None

PhotosApart ==
  \A c, d \in Calls :
    Carries(call[c]) /\ Carries(call[d]) /\ call[c].content = call[d].content => c = d

AddingApart ==
  \A c, d \in Calls : Adding(c) /\ Adding(d) /\ call[c].id = call[d].id => c = d

WardrobeSound == WardrobeTypeOK /\ ListSound /\ PhotosHold /\ PhotosApart /\ AddingApart

LEMMA WardrobeTyped ==
  /\ WardrobeTypeOK <=> /\ ListTyped(WardrobePCs) /\ pickedFor \in [Photos -> Ids \cup {None}]
                        /\ unanswered \subseteq Photos
  /\ WardrobeTypeOK' <=> /\ ListTyped(WardrobePCs)' /\ pickedFor' \in [Photos -> Ids \cup {None}]
                         /\ unanswered' \subseteq Photos
  BY DEF WardrobeTypeOK, ListTyped

(* What a step of c may do to the photos: those that others carry are left  *)
(* alone.                                                                   *)
PhotosKept(c) ==
  /\ pickedFor' \in [Photos -> Ids \cup {None}] /\ unanswered' \subseteq Photos
  /\ \A d \in Calls \ {c} : Carries(call[d]) =>
       /\ pickedFor'[call[d].content] = pickedFor[call[d].content]
       /\ call[d].content \in unanswered' <=> call[d].content \in unanswered

LEMMA PhotosMove ==
  ASSUME WardrobeSound, NEW c \in Calls, ListTyped(WardrobePCs)', ListSound',
         drawn \subseteq drawn', PhotosKept(c), \A d \in Calls \ {c} : AsBefore(d),
         PhotoHolds(call'[c], drawn', pickedFor', unanswered'),
         Carries(call'[c]) =>
           \A d \in Calls \ {c} : Carries(call[d]) => call[d].content # call'[c].content,
         Adding(c)' => \A d \in Calls \ {c} : Adding(d) => call[d].id # call'[c].id
  PROVE  WardrobeSound'
  <1>1. WardrobeTypeOK'
    BY WardrobeTyped DEF PhotosKept
  <1>2. ASSUME NEW d \in Calls \ {c}  PROVE PhotoHolds(call'[d], drawn', pickedFor', unanswered')
    <2>1. PhotoHolds(call[d], drawn, pickedFor, unanswered) /\ AsBefore(d)
      BY DEF WardrobeSound, PhotosHold
    <2>2. Carries(call[d]) =>
            /\ pickedFor'[call[d].content] = pickedFor[call[d].content]
            /\ call[d].content \in unanswered' <=> call[d].content \in unanswered
      BY DEF PhotosKept
    <2>. QED BY <2>1, <2>2 DEF PhotoHolds, AsBefore, Carries
  <1>3. PhotosHold'
    BY <1>2 DEF PhotosHold
  <1>4. PhotosApart'
    BY DEF WardrobeSound, PhotosApart, Carries, AsBefore
  <1>5. AddingApart'
    BY DEF WardrobeSound, AddingApart, Adding, At, AsBefore
  <1>. QED BY <1>1, <1>3, <1>4, <1>5 DEF WardrobeSound

LEMMA WardrobeInitSound == WardrobeInit => WardrobeSound /\ adrift
  <1> SUFFICES ASSUME WardrobeInit  PROVE WardrobeSound /\ adrift
    OBVIOUS
  <1>1. ListTyped(WardrobePCs) /\ ListSound /\ adrift /\ \A c \in Calls : call[c].pc = "idle"
    BY ListInitSound DEF WardrobeInit
  <1>2. WardrobeTypeOK
    BY <1>1, WardrobeTyped DEF WardrobeInit
  <1>3. PhotosHold /\ PhotosApart /\ AddingApart
    BY <1>1 DEF PhotosHold, PhotoHolds, PhotosApart, Carries, AddingApart, Adding, At
  <1>. QED BY <1>1, <1>2, <1>3 DEF WardrobeSound

AddStep(c) == Add(c) \/ AddServed(c) \/ AddAnswered(c) \/ AddFails(c)

UploadStep(c) == UploadServed(c) \/ UploadAnswered(c) \/ UploadFails(c)

LEMMA WardrobeListSteps ==
  ASSUME WardrobeSound, NEW c \in Calls, ListStep(c), UNCHANGED <<pickedFor, unanswered>>
  PROVE  WardrobeSound' /\ \A d \in Calls \ {c} : AsBefore(d)
  <1>1. ListTyped(WardrobePCs) /\ ListSound
    BY WardrobeTyped DEF WardrobeSound
  <1>2. PhotosKept(c)
    BY DEF WardrobeSound, WardrobeTypeOK, PhotosKept
  <1>3. CASE LoadStep(c)
    <2>1. /\ ListTyped(WardrobePCs)' /\ ListSound' /\ drawn' = drawn
          /\ call'[c].pc \in {"idle"} \cup LoadPCs
          /\ \A d \in Calls \ {c} : AsBefore(d)
      BY <1>1, <1>3, LoadSound
    <2>. QED BY <1>2, <2>1, PhotosMove DEF PhotoHolds, Carries, Adding, At
  <1>4. CASE DeleteStep(c)
    <2>1. /\ ListTyped(WardrobePCs)' /\ ListSound' /\ drawn' = drawn
          /\ call'[c].pc \in {"idle"} \cup DeletePCs
          /\ \A d \in Calls \ {c} : AsBefore(d)
      BY <1>1, <1>4, DeleteSound
    <2>. QED BY <1>2, <2>1, PhotosMove DEF PhotoHolds, Carries, Adding, At
  <1>. QED BY <1>3, <1>4 DEF ListStep, LoadStep, DeleteStep

(* _submit goes on with the first item of the list.                         *)
LEMMA GoesOn ==
  ASSUME call \in [Calls -> Call(WardrobePCs)], NEW c \in Calls, call[c].pc \in AddPCs,
         UncrossedLoad, NEW list \in Lists,
         UploadToFirst(c, list) \/ NothingToUpload(c, list)
  PROVE  /\ call' \in [Calls -> Call(WardrobePCs)] /\ \A d \in Calls \ {c} : AsBefore(d)
         /\ UncrossedLoad'
         /\ \/ call'[c].pc = "idle"
            \/ /\ call'[c].pc = "upload" /\ call'[c].content = call[c].content
               /\ call[c].content # None /\ list # <<>>
               /\ call'[c].id = Head(list).id /\ Head(list).id \in IdsOf(list)
  <1>1. call[c] \in Call(WardrobePCs) /\ Writing(c)
    BY DEF Writing, Loading
  <1>2. CASE UploadToFirst(c, list)
    <2> DEFINE i == Head(list).id
               q == [call[c] EXCEPT !.pc = "upload", !.id = i]
    <2>1. i \in IdsOf(list) /\ i \in Ids
      BY <1>2, HeadIn, EntriesTyped DEF UploadToFirst
    <2> HIDE DEF i
    <2>2. q \in Call(WardrobePCs) /\ q.pc = "upload" /\ q.id = i /\ q.content = call[c].content
      BY <1>1, <2>1 DEF Call
    <2>3. call' = [call EXCEPT ![c] = q]
      BY <1>1, <1>2 DEF UploadToFirst, i
    <2> HIDE DEF q
    <2>4. UncrossedLoad'
      BY <1>1, <2>2, <2>3, WriterCrosses
    <2>5. /\ call' \in [Calls -> Call(WardrobePCs)] /\ call'[c] = q
          /\ \A d \in Calls \ {c} : AsBefore(d)
      BY <2>2, <2>3, OneCall
    <2>. QED BY <1>2, <2>1, <2>2, <2>4, <2>5 DEF UploadToFirst, i
  <1>3. CASE NothingToUpload(c, list)
    <2>1. call' = [call EXCEPT ![c] = NoCall]
      BY <1>3 DEF NothingToUpload, Done
    <2>2. UncrossedLoad'
      BY <1>1, <2>1, NoCallTyped, WriterCrosses
    <2>. QED BY <2>1, <2>2, NoCallTyped, OneCall
  <1>. QED BY <1>2, <1>3

LEMMA WardrobeAddSteps ==
  ASSUME WardrobeSound, NEW c \in Calls, AddStep(c)
  PROVE  WardrobeSound' /\ \A d \in Calls \ {c} : AsBefore(d)
  <1>1. /\ call \in [Calls -> Call(WardrobePCs)] /\ call[c] \in Call(WardrobePCs)
        /\ stored \in Lists /\ shown \in Lists /\ drawn \subseteq Ids
        /\ status \in Statuses /\ adrift \in BOOLEAN
        /\ pickedFor \in [Photos -> Ids \cup {None}] /\ unanswered \subseteq Photos
        /\ ListSound /\ ListsDrawn /\ UncrossedLoad
        /\ None \notin Ids
    BY ListAssumption, WardrobeTyped DEF WardrobeSound, ListTyped, ListSound
  <1>2. PhotoHolds(call[c], drawn, pickedFor, unanswered)
    BY DEF WardrobeSound, PhotosHold
  <1>3. status' = status /\ adrift' \in BOOLEAN
    BY <1>1 DEF AddStep, Add, AddServed, AddAnswered, AddFails, OtherUploadTo, At
  <1>4. ASSUME call' \in [Calls -> Call(WardrobePCs)], \A d \in Calls \ {c} : AsBefore(d),
               call'[c].pc \in {"idle"} \cup AddPCs \cup UploadPCs, UncrossedLoad',
               stored' \in Lists, RowsGrow, drawn' \subseteq Ids,
               shown' \in Lists, IdsOf(shown') \subseteq drawn',
               PhotosKept(c), PhotoHolds(call'[c], drawn', pickedFor', unanswered'),
               Carries(call'[c]) =>
                 \A d \in Calls \ {c} : Carries(call[d]) => call[d].content # call'[c].content,
               Adding(c)' => \A d \in Calls \ {c} : Adding(d) => call[d].id # call'[c].id
        PROVE  WardrobeSound' /\ \A d \in Calls \ {c} : AsBefore(d)
    <2>1. ListTyped(WardrobePCs)'
      BY <1>1, <1>3, <1>4 DEF ListTyped
    <2>2. ListSound'
      BY <1>1, <1>4, MoveSound DEF ListHolds
    <2>. QED BY <1>4, <2>1, <2>2, PhotosMove DEF RowsGrow
  <1>5. ASSUME UNCHANGED <<stored, drawn>>
        PROVE  stored' \in Lists /\ RowsGrow /\ drawn' \subseteq Ids
    BY <1>1, <1>5 DEF RowsGrow, ListsDrawn
  <1>6. ASSUME NEW d \in Calls \ {c}, Carries(call[d]), Carries(call[c])
        PROVE  call[d].content # call[c].content
    BY <1>6 DEF WardrobeSound, PhotosApart
  <1>7. CASE Add(c)
    <2>1. PICK p \in {q \in Photos : ~InUse(q)} \cup {None} : StartWrite(c, "add", None, p)
      BY <1>7 DEF Add
    <2>2. /\ call' \in [Calls -> Call(WardrobePCs)] /\ \A d \in Calls \ {c} : AsBefore(d)
          /\ call'[c].pc = "add" /\ call'[c].id = None /\ call'[c].content = p /\ UncrossedLoad'
      <3>1. p \in Contents \cup {None}
        OBVIOUS
      <3>. QED BY <1>1, <2>1, <3>1, StartWrites
    <2>3. UNCHANGED <<stored, drawn, shown, pickedFor, unanswered>>
      BY <1>7 DEF Add
    <2>4. PhotosKept(c)
      BY <1>1, <2>3 DEF PhotosKept
    <2>5. p # None => pickedFor[p] = None /\ p \notin unanswered /\ \A d \in Calls : call[d].content # p
      BY DEF InUse
    <2>6. PhotoHolds(call'[c], drawn', pickedFor', unanswered')
      BY <2>2, <2>3, <2>5 DEF PhotoHolds
    <2>7. IdsOf(shown') \subseteq drawn'
      BY <1>1, <2>3 DEF ListsDrawn
    <2>. QED BY <1>1, <1>4, <1>5, <2>2, <2>3, <2>4, <2>5, <2>6, <2>7 DEF Carries, Adding, At
  <1>8. CASE AddServed(c)
    <2>1. PICK i \in Ids \ drawn :
            /\ stored' = Cons(NewEntry(i), stored)
            /\ drawn' = drawn \cup {i}
            /\ call' = [call EXCEPT ![c].pc = "add_answer", ![c].id = i]
            /\ pickedFor' = IF call[c].content = None THEN pickedFor
                            ELSE [pickedFor EXCEPT ![call[c].content] = i]
      BY <1>8 DEF AddServed
    <2> DEFINE q == [call[c] EXCEPT !.pc = "add_answer", !.id = i]
    <2>2. /\ q \in Call(WardrobePCs) /\ q.pc = "add_answer" /\ q.id = i
          /\ q.content = call[c].content /\ q.content \in Contents \cup {None}
      BY <1>1 DEF Call
    <2>3. call' = [call EXCEPT ![c] = q]
      BY <1>1, <2>1
    <2> HIDE DEF q
    <2>4. /\ call' \in [Calls -> Call(WardrobePCs)] /\ call'[c] = q
          /\ \A d \in Calls \ {c} : AsBefore(d)
      BY <1>1, <2>2, <2>3, OneCall
    <2>5. UncrossedLoad' /\ call[c].pc = "add" /\ shown' = shown /\ unanswered' = unanswered
      BY <1>1, <1>8, <2>2, <2>3, WriterCrosses DEF AddServed, At, Writing, Loading
    <2>6. NewEntry(i) \in Entry /\ NewEntry(i).id = i
      BY DEF NewEntry, Entry
    <2>7. /\ stored' \in Lists /\ OneEach(stored')
          /\ IdsOf(stored') = {i} \cup IdsOf(stored)
      BY <1>1, <2>1, <2>6, ConsPuts DEF ListsDrawn
    <2>8. RowsGrow /\ drawn' \subseteq Ids /\ IdsOf(shown') \subseteq drawn'
      BY <1>1, <2>1, <2>5, <2>7 DEF RowsGrow, ListsDrawn
    <2>9. /\ pickedFor' \in [Photos -> Ids \cup {None}]
          /\ q.content # None => pickedFor'[q.content] = i
          /\ \A p \in Photos : p # q.content => pickedFor'[p] = pickedFor[p]
      BY <1>1, <2>1, <2>2
    <2>10. PhotosKept(c)
      <3>1. ASSUME NEW d \in Calls \ {c}, Carries(call[d])
            PROVE  pickedFor'[call[d].content] = pickedFor[call[d].content]
        <4>1. call[d].content \in Photos /\ call[d].content # q.content
          BY <1>1, <1>6, <2>2, <2>5, <3>1, CallTyped DEF Carries
        <4>. QED BY <2>9, <4>1
      <3>. QED BY <1>1, <2>5, <2>9, <3>1 DEF PhotosKept
    <2>11. PhotoHolds(q, drawn', pickedFor', unanswered')
      BY <1>2, <2>1, <2>2, <2>5, <2>9 DEF PhotoHolds
    <2>12. \A d \in Calls \ {c} : Adding(d) => call[d].id # i
      BY DEF WardrobeSound, PhotosHold, PhotoHolds, Adding, At
    <2>13. Carries(q) =>
             \A d \in Calls \ {c} : Carries(call[d]) => call[d].content # q.content
      BY <1>6, <2>2, <2>5 DEF Carries
    <2>. QED BY <1>1, <1>4, <2>2, <2>4, <2>5, <2>7, <2>8, <2>10, <2>11, <2>12, <2>13
  <1>9. CASE AddAnswered(c)
    <2>1. /\ UNCHANGED <<stored, drawn, pickedFor, unanswered>> /\ call[c].pc = "add_answer"
          /\ shown' = Cons(NewEntry(call[c].id), shown)
          /\ UploadToFirst(c, shown') \/ NothingToUpload(c, shown')
      BY <1>9 DEF AddAnswered, At, WithNew
    <2>2. NewEntry(call[c].id) \in Entry /\ NewEntry(call[c].id).id = call[c].id
      BY <1>1, <1>2, <2>1 DEF PhotoHolds, NewEntry, Entry
    <2>3. /\ shown' \in Lists /\ Head(shown') = NewEntry(call[c].id)
          /\ IdsOf(shown') \subseteq drawn'
      BY <1>1, <1>2, <2>1, <2>2, ConsPuts DEF ListsDrawn, PhotoHolds
    <2>4. /\ call' \in [Calls -> Call(WardrobePCs)] /\ \A d \in Calls \ {c} : AsBefore(d)
          /\ UncrossedLoad'
          /\ \/ call'[c].pc = "idle"
             \/ /\ call'[c].pc = "upload" /\ call'[c].content = call[c].content
                /\ call[c].content # None /\ call'[c].id = call[c].id
      BY <1>1, <2>1, <2>2, <2>3, GoesOn
    <2>5. PhotosKept(c)
      BY <1>1, <2>1 DEF PhotosKept
    <2>6. PhotoHolds(call'[c], drawn', pickedFor', unanswered')
      BY <1>2, <2>1, <2>4 DEF PhotoHolds
    <2>. QED BY <1>4, <1>5, <1>6, <2>1, <2>3, <2>4, <2>5, <2>6 DEF Carries, Adding, At
  <1>10. CASE AddFails(c)
    <2>1. /\ UNCHANGED <<stored, drawn, shown, pickedFor>> /\ call[c].pc \in AddPCs
          /\ unanswered' = unanswered \cup ({call[c].content} \ {None})
          /\ UploadToFirst(c, shown) \/ NothingToUpload(c, shown)
      BY <1>10 DEF AddFails
    <2>2. /\ call' \in [Calls -> Call(WardrobePCs)] /\ \A d \in Calls \ {c} : AsBefore(d)
          /\ UncrossedLoad'
          /\ \/ call'[c].pc = "idle"
             \/ /\ call'[c].pc = "upload" /\ call'[c].content = call[c].content
                /\ call[c].content # None /\ call'[c].id \in IdsOf(shown)
      BY <1>1, <2>1, GoesOn
    <2>3. call[c].content \in Photos \cup {None} /\ unanswered' \subseteq Photos
      BY <1>1, <2>1 DEF Call
    <2>4. PhotosKept(c)
      <3>1. ASSUME NEW d \in Calls \ {c}, Carries(call[d])
            PROVE  call[d].content \in unanswered' <=> call[d].content \in unanswered
        BY <1>6, <2>1, <3>1 DEF Carries
      <3>. QED BY <1>1, <2>1, <2>3, <3>1 DEF PhotosKept
    <2>5. PhotoHolds(call'[c], drawn', pickedFor', unanswered')
      BY <1>1, <2>1, <2>2 DEF PhotoHolds, ListsDrawn
    <2>. QED
      BY <1>1, <1>4, <1>5, <1>6, <2>1, <2>2, <2>4, <2>5 DEF Carries, Adding, At, ListsDrawn
  <1>. QED BY <1>7, <1>8, <1>9, <1>10 DEF AddStep

LEMMA WardrobeUploadSteps ==
  ASSUME WardrobeSound, NEW c \in Calls, UploadStep(c)
  PROVE  WardrobeSound' /\ \A d \in Calls \ {c} : AsBefore(d)
  <1>1. /\ call \in [Calls -> Call(WardrobePCs)] /\ call[c] \in Call(WardrobePCs)
        /\ stored \in Lists /\ shown \in Lists /\ drawn \subseteq Ids
        /\ status \in Statuses /\ adrift \in BOOLEAN
        /\ pickedFor \in [Photos -> Ids \cup {None}] /\ unanswered \subseteq Photos
        /\ ListSound /\ ListsDrawn /\ UncrossedLoad
    BY WardrobeTyped DEF WardrobeSound, ListTyped, ListSound
  <1>2. /\ call[c].pc \in UploadPCs
        /\ call[c].id \in drawn /\ call[c].id \in Ids /\ call[c].content \in Contents \cup {None}
    BY <1>1
    DEF WardrobeSound, PhotosHold, PhotoHolds, UploadStep, UploadServed, UploadAnswered, UploadFails,
        At, Call
  <1>3. /\ UNCHANGED <<drawn, status, pickedFor, unanswered>> /\ adrift' \in BOOLEAN
        /\ PhotosKept(c)
    BY <1>1 DEF UploadStep, UploadServed, UploadAnswered, UploadFails, At, PhotosKept
  <1>4. ASSUME NEW q \in Call(WardrobePCs), call' = [call EXCEPT ![c] = q],
               q.pc \in {"idle", "upload_answer"},
               q.pc = "upload_answer" => q.id = call[c].id /\ q.content = call[c].content,
               stored' \in Lists, OneEach(stored'), IdsOf(stored') \subseteq IdsOf(stored),
               shown' \in Lists, IdsOf(shown') = IdsOf(shown)
        PROVE  WardrobeSound' /\ \A d \in Calls \ {c} : AsBefore(d)
    <2>1. /\ call' \in [Calls -> Call(WardrobePCs)] /\ call'[c] = q
          /\ \A d \in Calls \ {c} : AsBefore(d)
      BY <1>1, <1>4, OneCall
    <2>2. UncrossedLoad'
      BY <1>1, <1>2, <1>4, WriterCrosses DEF Writing, Loading
    <2>3. ListTyped(WardrobePCs)'
      BY <1>1, <1>3, <1>4, <2>1 DEF ListTyped
    <2>4. RowsGrow /\ IdsOf(shown') \subseteq drawn'
      BY <1>1, <1>3, <1>4 DEF RowsGrow, ListsDrawn
    <2>5. ListHolds(call'[c], stored', drawn')
      BY <1>4, <2>1 DEF ListHolds
    <2>6. ListSound'
      BY <1>1, <2>1, <2>2, <2>4, <2>5, MoveSound
    <2>7. PhotoHolds(q, drawn', pickedFor', unanswered')
      BY <1>2, <1>3, <1>4 DEF WardrobeSound, PhotosHold, PhotoHolds
    <2>8. Carries(q) =>
            \A d \in Calls \ {c} : Carries(call[d]) => call[d].content # q.content
      BY <1>2, <1>4 DEF WardrobeSound, PhotosApart, Carries
    <2>. QED
      BY <1>3, <1>4, <2>1, <2>3, <2>6, <2>7, <2>8, PhotosMove DEF Adding, At
  <1>5. CASE UploadServed(c)
    <2> DEFINE q == [call[c] EXCEPT !.pc = "upload_answer"]
    <2>1. /\ q \in Call(WardrobePCs) /\ q.pc = "upload_answer" /\ q.id = call[c].id
          /\ q.content = call[c].content
      BY <1>1 DEF Call
    <2>2. call' = [call EXCEPT ![c] = q] /\ shown' = shown
      BY <1>1, <1>5 DEF UploadServed, Goto
    <2> HIDE DEF q
    <2>3. stored' \in Lists /\ OneEach(stored') /\ IdsOf(stored') = IdsOf(stored)
      BY <1>1, <1>2, <1>5, WithContentKeeps DEF UploadServed, ListsDrawn
    <2>. QED BY <1>1, <1>4, <2>1, <2>2, <2>3
  <1>6. CASE UploadAnswered(c)
    <2>1. shown' \in Lists /\ IdsOf(shown') = IdsOf(shown)
      BY <1>1, <1>2, <1>6, WithContentKeeps DEF UploadAnswered
    <2>2. call' = [call EXCEPT ![c] = NoCall] /\ stored' = stored
      BY <1>6 DEF UploadAnswered, Done
    <2>3. NoCall \in Call(WardrobePCs)
      BY NoCallTyped
    <2>. QED BY <1>1, <1>4, <2>1, <2>2, <2>3, NoCallTyped DEF ListsDrawn
  <1>7. CASE UploadFails(c)
    <2>1. call' = [call EXCEPT ![c] = NoCall] /\ UNCHANGED <<stored, shown>>
      BY <1>7 DEF UploadFails, Done
    <2>2. NoCall \in Call(WardrobePCs)
      BY NoCallTyped
    <2>. QED BY <1>1, <1>4, <2>1, <2>2, NoCallTyped DEF ListsDrawn
  <1>. QED BY <1>5, <1>6, <1>7 DEF UploadStep

LEMMA WardrobeNextSound ==
  ASSUME WardrobeSound, [WardrobeNext]_wardrobeVars
  PROVE  WardrobeSound'
  <1>1. CASE UNCHANGED wardrobeVars
    BY <1>1
    DEF wardrobeVars, WardrobeSound, WardrobeTypeOK, ListSound, ListsDrawn, ListHolds, PhotosHold,
        PhotosApart, AddingApart, Adding, UncrossedLoad, Loading, Writing, At
  <1>2. CASE WardrobeNext
    BY <1>2, WardrobeListSteps, WardrobeAddSteps, WardrobeUploadSteps
    DEF WardrobeNext, AddStep, UploadStep
  <1>. QED BY <1>1, <1>2

LEMMA WardrobeSoundTheorem == WardrobeSpec => []WardrobeSound
  BY WardrobeInitSound, WardrobeNextSound, PTL DEF WardrobeSpec

(* Every reachable state of the wardrobe has the declared types.            *)
THEOREM WardrobeTypeTheorem == WardrobeSpec => []WardrobeTypeOK
  <1>1. WardrobeSound => WardrobeTypeOK
    BY DEF WardrobeSound
  <1>. QED BY <1>1, WardrobeSoundTheorem, PTL

(* A photo is shown by the item it was picked for, whatever else runs at    *)
(* the time, if the POST that makes the item was answered                   *)
(* (add_clothing_item_screen.dart:58-68, wardrobe_cubit.dart:42).           *)
THEOREM AnsweredPhotoTheorem == WardrobeSpec => []AnsweredPhotoOnItsItem
  <1>1. WardrobeInit => AnsweredPhotoOnItsItem
    BY ListInitSound, ListAssumption DEF WardrobeInit, AnsweredPhotoOnItsItem
  <1>2. AnsweredPhotoOnItsItem /\ WardrobeSound /\ [WardrobeNext]_wardrobeVars
          => AnsweredPhotoOnItsItem'
    <2> SUFFICES ASSUME AnsweredPhotoOnItsItem, WardrobeSound, [WardrobeNext]_wardrobeVars,
                        NEW e \in ToSet(stored'), e.content \in Photos \ unanswered'
                 PROVE  pickedFor'[e.content] = e.id
      BY DEF AnsweredPhotoOnItsItem
    <2>1. ListTyped(WardrobePCs) /\ ListSound /\ PhotosHold
      BY WardrobeTyped DEF WardrobeSound
    <2>2. ASSUME e \in ToSet(stored), pickedFor' = pickedFor, unanswered \subseteq unanswered'
          PROVE  pickedFor'[e.content] = e.id
      BY <2>2 DEF AnsweredPhotoOnItsItem
    <2>3. CASE UNCHANGED wardrobeVars
      BY <2>2, <2>3 DEF wardrobeVars
    <2>4. ASSUME NEW c \in Calls, ListStep(c), UNCHANGED <<pickedFor, unanswered>>
          PROVE  pickedFor'[e.content] = e.id
      <3>1. ToSet(stored') \subseteq ToSet(stored)
        BY <2>1, <2>4, LoadSound, DeleteSound DEF ListStep, LoadStep, DeleteStep
      <3>. QED BY <2>2, <2>4, <3>1
    <2>5. ASSUME NEW c \in Calls,
                 Add(c) \/ AddAnswered(c) \/ AddFails(c) \/ UploadAnswered(c) \/ UploadFails(c)
          PROVE  pickedFor'[e.content] = e.id
      BY <2>2, <2>5 DEF Add, AddAnswered, AddFails, UploadAnswered, UploadFails
    <2>6. ASSUME NEW c \in Calls, AddServed(c)
          PROVE  pickedFor'[e.content] = e.id
      <3>1. PICK i \in Ids \ drawn :
              /\ stored' = Cons(NewEntry(i), stored)
              /\ pickedFor' = IF call[c].content = None THEN pickedFor
                              ELSE [pickedFor EXCEPT ![call[c].content] = i]
        BY <2>6 DEF AddServed
      <3>2. /\ call[c].pc = "add" /\ unanswered' = unanswered
            /\ stored \in Lists /\ pickedFor \in [Photos -> Ids \cup {None}] /\ None \notin Photos
            /\ None \notin Ids
        BY <2>1, <2>6, ListAssumption
        DEF AddServed, At, ListTyped, WardrobeSound, WardrobeTypeOK
      <3>3. NewEntry(i) \in Entry /\ NewEntry(i).content = None
        BY DEF NewEntry, Entry
      <3>4. e \in ToSet(stored)
        BY <3>1, <3>2, <3>3, ConsPuts
      <3>5. pickedFor[e.content] = e.id /\ e.id # None
        BY <3>2, <3>4, EntriesTyped DEF AnsweredPhotoOnItsItem, Entry
      <3>6. e.content # call[c].content
        BY <2>1, <3>2, <3>5 DEF PhotosHold, PhotoHolds
      <3>. QED BY <3>1, <3>2, <3>5, <3>6
    <2>7. ASSUME NEW c \in Calls, UploadServed(c)
          PROVE  pickedFor'[e.content] = e.id
      <3>1. /\ call[c].pc = "upload" /\ UNCHANGED <<pickedFor, unanswered>>
            /\ stored \in Lists /\ stored' = WithContent(stored, call[c].id, call[c].content)
            /\ call[c].id \in Ids /\ call[c].content \in Contents \cup {None}
            /\ call[c].content \notin unanswered => pickedFor[call[c].content] = call[c].id
        BY <2>1, <2>7, CallTyped
        DEF UploadServed, At, ListTyped, ListSound, ListsDrawn, PhotosHold, PhotoHolds
      <3>2. IF e.id = call[c].id THEN e = [id |-> call[c].id, content |-> call[c].content]
                                 ELSE e \in ToSet(stored)
        BY <3>1, WithContentKeeps
      <3>. QED BY <2>2, <3>1, <3>2
    <2>. QED BY <2>3, <2>4, <2>5, <2>6, <2>7 DEF WardrobeNext
  <1>. QED BY <1>1, <1>2, WardrobeSoundTheorem, PTL DEF WardrobeSpec

-----------------------------------------------------------------------------
(* The items that are shown.                                                *)

(* An item that is shown and not stored is one the API has deleted, one     *)
(* that is shown otherwise than it is stored has got a photo, and one that  *)
(* is stored and not shown is new: the answer is still to come.             *)
ItemsGone == \A i \in IdsOf(shown) \ IdsOf(stored) :
               \E c \in Calls : call[c].id = i /\ At(c, "delete_answer")

ItemsChanged == \A e \in ToSet(shown) \ ToSet(stored) : e.id \in IdsOf(stored) =>
                  \E c \in Calls : call[c].id = e.id /\ At(c, "upload_answer")

ItemsAdded == \A i \in IdsOf(stored) \ IdsOf(shown) :
                \E c \in Calls : call[c].id = i /\ Adding(c)

(* An item that is being added is not shown, so nobody deletes it or gives  *)
(* it a photo.                                                              *)
AddedNotShown ==
  \A c \in Calls : Adding(c) =>
    /\ call[c].id \notin IdsOf(shown)
    /\ NewEntry(call[c].id) \in ToSet(stored)
    /\ \A d \in Calls : call[d].pc \in DeletePCs \cup UploadPCs => call[d].id # call[c].id

Uploading(c) == call[c].pc \in UploadPCs

UploadsApart ==
  \A c, d \in Calls : Uploading(c) /\ Uploading(d) /\ call[c].id = call[d].id => c = d

UploadsStored ==
  \A c \in Calls : At(c, "upload_answer") =>
    \A e \in ToSet(stored) : e.id = call[c].id => e.content = call[c].content

ItemsAgree == /\ ShownOnce /\ ItemsGone /\ ItemsChanged /\ ItemsAdded
              /\ AddedNotShown /\ UploadsApart /\ UploadsStored

(* A step that changes neither list.                                        *)
LEMMA ItemsStay ==
  ASSUME ItemsAgree, UNCHANGED <<stored, shown>>, NEW c \in Calls,
         \A d \in Calls \ {c} : AsBefore(d),
         call[c].pc \notin {"delete_answer", "upload_answer", "add_answer"},
         call'[c].pc \notin {"upload_answer", "add_answer"},
         call'[c].pc \in DeletePCs \cup UploadPCs => call'[c].id \in IdsOf(shown),
         call'[c].pc = "upload" => ~OtherUploadTo(c, call'[c].id)
  PROVE  ItemsAgree'
  <1>1. ShownOnce'
    BY DEF ItemsAgree, ShownOnce
  <1>2. ItemsGone'
    BY DEF ItemsAgree, ItemsGone, AsBefore, At
  <1>3. ItemsChanged'
    BY DEF ItemsAgree, ItemsChanged, AsBefore, At
  <1>4. ItemsAdded'
    BY DEF ItemsAgree, ItemsAdded, AsBefore, Adding, At
  <1>5. AddedNotShown'
    BY DEF ItemsAgree, AddedNotShown, AsBefore, Adding, At
  <1>6. UploadsApart'
    BY DEF ItemsAgree, UploadsApart, Uploading, OtherUploadTo, AsBefore
  <1>7. UploadsStored'
    BY DEF ItemsAgree, UploadsStored, AsBefore, At
  <1>. QED BY <1>1, <1>2, <1>3, <1>4, <1>5, <1>6, <1>7 DEF ItemsAgree

LEMMA ItemsLoadAgree ==
  ASSUME WardrobeSound, ~adrift => ItemsAgree, NEW c \in Calls, ~adrift', LoadStep(c)
  PROVE  ItemsAgree'
  <1>1. ListTyped(WardrobePCs) /\ ListSound
    BY WardrobeTyped DEF WardrobeSound
  <1>2. /\ call[c].pc \in {"idle"} \cup LoadPCs /\ call'[c].pc \in {"idle"} \cup LoadPCs
        /\ \A d \in Calls \ {c} : AsBefore(d)
        /\ stored' = stored
    BY <1>1, LoadSound
  <1>3. CASE LoadAnswered(c)
    <2>1. shown' = stored /\ \A d \in Calls : ~Writing(d)
      BY <1>1, <1>3, LoadShows
    <2>2. \A d \in Calls : call'[d].pc \notin UploadPCs /\ ~Adding(d)'
      BY <1>2, <2>1 DEF Adding, At, Writing, Loading, AsBefore
    <2>. QED
      BY <1>1, <1>2, <2>1, <2>2
      DEF ItemsAgree, ShownOnce, ItemsGone, ItemsChanged, ItemsAdded, AddedNotShown, UploadsApart,
          UploadsStored, Uploading, At, ListSound, ListsDrawn
  <1>4. CASE Load(c) \/ LoadServed(c) \/ LoadFails(c)
    <2>1. UNCHANGED <<stored, shown, adrift>>
      BY <1>4 DEF Load, LoadServed, LoadFails
    <2>. QED BY <1>2, <2>1, ItemsStay
  <1>. QED BY <1>3, <1>4 DEF LoadStep

LEMMA ItemsDeleteAgree ==
  ASSUME WardrobeSound, ItemsAgree, NEW c \in Calls, ~adrift', DeleteStep(c)
  PROVE  ItemsAgree'
  <1>1. ListTyped(WardrobePCs) /\ ListSound
    BY WardrobeTyped DEF WardrobeSound
  <1>2. \A d \in Calls \ {c} : AsBefore(d)
    BY <1>1, DeleteSound
  <1>3. CASE /\ UNCHANGED <<stored, shown>> /\ call[c].pc # "delete_answer"
             /\ \/ call'[c].pc = "idle"
                \/ call'[c].pc = "delete" /\ call'[c].id \in IdsOf(shown)
    <2>1. call[c].pc \in {"idle"} \cup DeletePCs
      BY <1>1, DeleteSound
    <2>. QED BY <1>2, <1>3, <2>1, ItemsStay
  <1>4. CASE /\ call[c].pc = "delete" /\ call'[c].pc = "delete_answer"
             /\ call'[c].id = call[c].id /\ shown' = shown
             /\ ToSet(stored') = {e \in ToSet(stored) : e.id # call[c].id}
             /\ IdsOf(stored') = IdsOf(stored) \ {call[c].id}
    <2>1. ItemsGone'
      BY <1>2, <1>4 DEF ItemsAgree, ItemsGone, AsBefore, At
    <2>2. ItemsChanged'
      BY <1>2, <1>4 DEF ItemsAgree, ItemsChanged, AsBefore, At
    <2>3. ItemsAdded'
      BY <1>2, <1>4 DEF ItemsAgree, ItemsAdded, AsBefore, Adding, At
    <2>4. AddedNotShown'
      BY <1>2, <1>4 DEF ItemsAgree, AddedNotShown, NewEntry, AsBefore, Adding, At
    <2>5. UploadsApart' /\ UploadsStored'
      BY <1>2, <1>4 DEF ItemsAgree, UploadsApart, UploadsStored, Uploading, AsBefore, At
    <2>. QED BY <1>4, <2>1, <2>2, <2>3, <2>4, <2>5 DEF ItemsAgree, ShownOnce
  <1>5. CASE /\ call[c].pc = "delete_answer" /\ call'[c].pc = "idle"
             /\ stored' = stored /\ call[c].id \notin IdsOf(stored)
             /\ ToSet(shown') = {e \in ToSet(shown) : e.id # call[c].id}
             /\ IdsOf(shown') = IdsOf(shown) \ {call[c].id}
             /\ OneEach(shown) => OneEach(shown')
    <2>1. ItemsGone'
      BY <1>2, <1>5 DEF ItemsAgree, ItemsGone, AsBefore, At
    <2>2. ItemsChanged'
      BY <1>2, <1>5 DEF ItemsAgree, ItemsChanged, AsBefore, At
    <2>3. ItemsAdded'
      BY <1>2, <1>5 DEF ItemsAgree, ItemsAdded, AsBefore, Adding, At
    <2>4. AddedNotShown'
      BY <1>2, <1>5 DEF ItemsAgree, AddedNotShown, AsBefore, Adding, At
    <2>5. UploadsApart' /\ UploadsStored'
      BY <1>2, <1>5 DEF ItemsAgree, UploadsApart, UploadsStored, Uploading, AsBefore, At
    <2>. QED BY <1>5, <2>1, <2>2, <2>3, <2>4, <2>5 DEF ItemsAgree, ShownOnce
  <1>. QED BY <1>1, <1>3, <1>4, <1>5, DeleteDoes

LEMMA ItemsAddAgree ==
  ASSUME WardrobeSound, ItemsAgree, NEW c \in Calls, ~adrift', AddStep(c)
  PROVE  ItemsAgree'
  <1>1. /\ call \in [Calls -> Call(WardrobePCs)] /\ call[c] \in Call(WardrobePCs)
        /\ stored \in Lists /\ shown \in Lists /\ ListSound /\ ListsDrawn /\ UncrossedLoad
        /\ PhotoHolds(call[c], drawn, pickedFor, unanswered) /\ drawn \subseteq Ids
        /\ \A d \in Calls \ {c} : AsBefore(d)
    BY WardrobeAddSteps, WardrobeTyped DEF WardrobeSound, ListTyped, ListSound, PhotosHold
  <1>2. CASE Add(c)
    <2>1. PICK p \in {q \in Photos : ~InUse(q)} \cup {None} : StartWrite(c, "add", None, p)
      BY <1>2 DEF Add
    <2>2. call[c].pc = "idle"
      BY <2>1 DEF StartWrite, At
    <2>3. /\ call'[c].pc = "add" /\ call'[c].id = None
      <3>1. p \in Contents \cup {None}
        OBVIOUS
      <3>. QED BY <1>1, <2>1, <3>1, StartWrites
    <2>. QED BY <1>1, <1>2, <2>2, <2>3, ItemsStay DEF Add
  <1>3. CASE AddServed(c)
    <2>1. PICK i \in Ids \ drawn :
            /\ stored' = Cons(NewEntry(i), stored)
            /\ call' = [call EXCEPT ![c].pc = "add_answer", ![c].id = i]
      BY <1>3 DEF AddServed
    <2>2. NewEntry(i) \in Entry /\ NewEntry(i).id = i
      BY DEF NewEntry, Entry
    <2>3. /\ ToSet(stored') = {NewEntry(i)} \cup ToSet(stored)
          /\ IdsOf(stored') = {i} \cup IdsOf(stored)
      BY <1>1, <2>1, <2>2, ConsPuts
    <2>4. /\ call'[c].id = i /\ call'[c].pc = "add_answer" /\ call[c].pc = "add"
          /\ shown' = shown
      BY <1>1, <1>3, <2>1 DEF Call, AddServed, At
    <2>5. /\ i \notin IdsOf(shown) /\ i \notin IdsOf(stored)
          /\ \A d \in Calls : call[d].pc \in DeletePCs \cup UploadPCs => call[d].id # i
      BY <1>1 DEF ListsDrawn, ListSound, ListHolds, WardrobeSound, PhotosHold, PhotoHolds
    <2>6. ItemsGone'
      BY <1>1, <2>3, <2>4 DEF ItemsAgree, ItemsGone, AsBefore, At
    <2>7. ItemsChanged'
      <3>1. \A e \in ToSet(shown) : e.id # i
        BY <2>5 DEF IdsOf
      <3>. QED BY <1>1, <2>3, <2>4, <3>1 DEF ItemsAgree, ItemsChanged, AsBefore, At
    <2>8. ItemsAdded'
      BY <1>1, <2>3, <2>4 DEF ItemsAgree, ItemsAdded, AsBefore, Adding, At
    <2>9. AddedNotShown'
      BY <1>1, <2>3, <2>4, <2>5 DEF ItemsAgree, AddedNotShown, AsBefore, Adding, At
    <2>10. UploadsApart'
      BY <1>1, <2>4 DEF ItemsAgree, UploadsApart, Uploading, AsBefore
    <2>11. UploadsStored'
      BY <1>1, <2>2, <2>3, <2>4, <2>5 DEF ItemsAgree, UploadsStored, AsBefore, At
    <2>. QED
      BY <2>4, <2>6, <2>7, <2>8, <2>9, <2>10, <2>11 DEF ItemsAgree, ShownOnce
  <1>4. CASE AddAnswered(c)
    <2> DEFINE i == call[c].id
    <2>1. /\ call[c].pc = "add_answer" /\ stored' = stored
          /\ shown' = Cons(NewEntry(i), shown)
          /\ UploadToFirst(c, shown') \/ NothingToUpload(c, shown')
      BY <1>4 DEF AddAnswered, At, WithNew
    <2>2. NewEntry(i) \in Entry /\ NewEntry(i).id = i
      BY <1>1, <2>1 DEF PhotoHolds, NewEntry, Entry
    <2>3. /\ i \notin IdsOf(shown) /\ NewEntry(i) \in ToSet(stored)
          /\ \A d \in Calls : call[d].pc \in DeletePCs \cup UploadPCs => call[d].id # i
      BY <2>1 DEF ItemsAgree, AddedNotShown, Adding, At
    <2>4. /\ shown' \in Lists /\ Head(shown') = NewEntry(i) /\ OneEach(shown')
          /\ ToSet(shown') = {NewEntry(i)} \cup ToSet(shown)
          /\ IdsOf(shown') = {i} \cup IdsOf(shown)
      BY <1>1, <2>1, <2>2, <2>3, ConsPuts DEF ItemsAgree, ShownOnce
    <2>5. \/ call'[c].pc = "idle"
          \/ call'[c].pc = "upload" /\ call'[c].id = i
      BY <1>1, <2>1, <2>2, <2>4, GoesOn
    <2>6. i \in IdsOf(stored)
      BY <2>2, <2>3 DEF IdsOf
    <2> HIDE DEF i
    <2>7. ItemsGone'
      BY <1>1, <2>1, <2>4, <2>6 DEF ItemsAgree, ItemsGone, AsBefore, At
    <2>8. ItemsChanged'
      BY <1>1, <2>1, <2>3, <2>4 DEF ItemsAgree, ItemsChanged, AsBefore, At
    <2>9. ItemsAdded'
      BY <1>1, <2>1, <2>4 DEF i, ItemsAgree, ItemsAdded, AsBefore, Adding, At
    <2>10. AddedNotShown'
      <3>1. \A a \in Calls \ {c} : Adding(a) => call[a].id # i
        BY <2>1 DEF i, WardrobeSound, AddingApart, Adding, At
      <3>. QED
        BY <1>1, <2>1, <2>4, <2>5, <3>1 DEF ItemsAgree, AddedNotShown, AsBefore, Adding, At
    <2>11. UploadsApart'
      BY <1>1, <2>3, <2>5 DEF ItemsAgree, UploadsApart, Uploading, AsBefore
    <2>12. UploadsStored'
      BY <1>1, <2>1, <2>5 DEF ItemsAgree, UploadsStored, AsBefore, At
    <2>. QED
      BY <2>4, <2>7, <2>8, <2>9, <2>10, <2>11, <2>12 DEF ItemsAgree, ShownOnce
  <1>5. CASE AddFails(c)
    <2>1. /\ UNCHANGED <<stored, shown>> /\ call[c].pc = "add"
          /\ UploadToFirst(c, shown) \/ NothingToUpload(c, shown)
          /\ shown # <<>> => ~OtherUploadTo(c, Head(shown).id)
      BY <1>5 DEF AddFails, At
    <2>2. \/ call'[c].pc = "idle"
          \/ /\ call'[c].pc = "upload" /\ shown # <<>>
             /\ call'[c].id = Head(shown).id /\ Head(shown).id \in IdsOf(shown)
      BY <1>1, <2>1, GoesOn
    <2>. QED BY <1>1, <2>1, <2>2, ItemsStay
  <1>. QED BY <1>2, <1>3, <1>4, <1>5 DEF AddStep

LEMMA ItemsUploadAgree ==
  ASSUME WardrobeSound, ItemsAgree, NEW c \in Calls, ~adrift', UploadStep(c)
  PROVE  ItemsAgree'
  <1>1. /\ call \in [Calls -> Call(WardrobePCs)] /\ call[c] \in Call(WardrobePCs)
        /\ stored \in Lists /\ shown \in Lists /\ ListsDrawn /\ drawn \subseteq Ids
        /\ PhotoHolds(call[c], drawn, pickedFor, unanswered)
        /\ \A d \in Calls \ {c} : AsBefore(d)
    BY WardrobeUploadSteps, WardrobeTyped DEF WardrobeSound, ListTyped, ListSound, PhotosHold
  <1> DEFINE i == call[c].id
             x == call[c].content
  <1>2. call[c].pc \in UploadPCs /\ i \in Ids /\ x \in Contents \cup {None}
    BY <1>1 DEF UploadStep, UploadServed, UploadAnswered, UploadFails, At, PhotoHolds, Call
  <1>3. \A d \in Calls \ {c} : call[d].pc \in UploadPCs => call[d].id # i
    BY <1>2 DEF ItemsAgree, UploadsApart, Uploading
  <1>4. CASE UploadServed(c)
    <2>1. /\ call'[c].pc = "upload_answer" /\ call'[c].id = i /\ call'[c].content = x
          /\ call[c].pc = "upload" /\ shown' = shown
      BY <1>1, <1>4 DEF UploadServed, Goto, At, Call
    <2>2. /\ IdsOf(stored') = IdsOf(stored)
          /\ \A e \in ToSet(stored') :
               IF e.id = i THEN e = [id |-> i, content |-> x] ELSE e \in ToSet(stored)
          /\ \A e \in ToSet(stored) : e.id # i => e \in ToSet(stored')
      BY <1>1, <1>2, <1>4, WithContentKeeps DEF UploadServed
    <2> HIDE DEF i, x
    <2>3. ItemsGone'
      BY <1>1, <2>1, <2>2 DEF ItemsAgree, ItemsGone, AsBefore, At
    <2>4. ItemsChanged'
      BY <1>1, <2>1, <2>2 DEF ItemsAgree, ItemsChanged, AsBefore, At
    <2>5. ItemsAdded'
      BY <1>1, <2>1, <2>2 DEF ItemsAgree, ItemsAdded, AsBefore, Adding, At
    <2>6. AddedNotShown'
      <3>1. \A a \in Calls : Adding(a) => call[a].id # i
        BY <1>2 DEF i, ItemsAgree, AddedNotShown
      <3>. QED
        BY <1>1, <2>1, <2>2, <3>1 DEF ItemsAgree, AddedNotShown, NewEntry, AsBefore, Adding, At
    <2>7. UploadsApart'
      BY <1>1, <1>3, <2>1 DEF ItemsAgree, UploadsApart, Uploading, AsBefore
    <2>8. UploadsStored'
      BY <1>1, <1>3, <2>1, <2>2 DEF ItemsAgree, UploadsStored, AsBefore, At
    <2>. QED BY <2>1, <2>3, <2>4, <2>5, <2>6, <2>7, <2>8 DEF ItemsAgree, ShownOnce
  <1>5. CASE UploadAnswered(c)
    <2>1. call'[c].pc = "idle" /\ call[c].pc = "upload_answer" /\ stored' = stored
      BY <1>1, <1>5, NoCallTyped DEF UploadAnswered, Done, At
    <2>2. /\ IdsOf(shown') = IdsOf(shown)
          /\ \A e \in ToSet(shown') :
               IF e.id = i THEN e = [id |-> i, content |-> x] ELSE e \in ToSet(shown)
          /\ OneEach(shown) => OneEach(shown')
      BY <1>1, <1>2, <1>5, WithContentKeeps DEF UploadAnswered
    <2>3. i \in IdsOf(stored) => [id |-> i, content |-> x] \in ToSet(stored)
      <3>1. ASSUME NEW e \in ToSet(stored), e.id = i  PROVE e = [id |-> i, content |-> x]
        <4>1. e \in Entry /\ e.content = x
          BY <1>1, <2>1, <3>1, EntriesTyped DEF ItemsAgree, UploadsStored, At
        <4>. QED BY <3>1, <4>1 DEF Entry
      <3>. QED BY <3>1 DEF IdsOf
    <2> HIDE DEF i, x
    <2>4. ItemsGone'
      BY <1>1, <2>1, <2>2 DEF ItemsAgree, ItemsGone, AsBefore, At
    <2>5. ItemsChanged'
      BY <1>1, <2>1, <2>2, <2>3 DEF i, ItemsAgree, ItemsChanged, AsBefore, At
    <2>6. ItemsAdded'
      BY <1>1, <2>1, <2>2 DEF ItemsAgree, ItemsAdded, AsBefore, Adding, At
    <2>7. AddedNotShown'
      BY <1>1, <2>1, <2>2 DEF ItemsAgree, AddedNotShown, AsBefore, Adding, At
    <2>8. UploadsApart' /\ UploadsStored'
      BY <1>1, <2>1 DEF ItemsAgree, UploadsApart, UploadsStored, Uploading, AsBefore, At
    <2>. QED BY <2>2, <2>4, <2>5, <2>6, <2>7, <2>8 DEF ItemsAgree, ShownOnce
  <1>6. CASE UploadFails(c)
    <2>1. call'[c].pc = "idle" /\ call[c].pc = "upload" /\ UNCHANGED <<stored, shown>>
      BY <1>1, <1>6, NoCallTyped DEF UploadFails, Done, At
    <2>. QED BY <1>1, <2>1, ItemsStay
  <1>. QED BY <1>4, <1>5, <1>6 DEF UploadStep

LEMMA ItemsNextAgree ==
  ASSUME WardrobeSound, ~adrift => ItemsAgree, [WardrobeNext]_wardrobeVars, ~adrift'
  PROVE  ItemsAgree'
  <1>1. CASE UNCHANGED wardrobeVars
    BY <1>1
    DEF wardrobeVars, ItemsAgree, ShownOnce, ItemsGone, ItemsChanged, ItemsAdded, AddedNotShown,
        UploadsApart, UploadsStored, Uploading, Adding, At
  <1>2. ASSUME NEW c \in Calls, DeleteStep(c) \/ AddStep(c) \/ UploadStep(c)
        PROVE  ItemsAgree'
    <2>1. ~adrift
      BY <1>2
      DEF DeleteStep, Delete, DeleteServed, DeleteAnswered, DeleteFails,
          AddStep, Add, AddServed, AddAnswered, AddFails,
          UploadStep, UploadServed, UploadAnswered, UploadFails
    <2>. QED BY <1>2, <2>1, ItemsDeleteAgree, ItemsAddAgree, ItemsUploadAgree
  <1>. QED
    BY <1>1, <1>2, ItemsLoadAgree
    DEF WardrobeNext, ListStep, LoadStep, DeleteStep, AddStep, UploadStep

(* What the cubit makes of the answers agrees with what the API has, in     *)
(* whatever order they come, unless a load has crossed a change or an       *)
(* answer was lost (wardrobe_cubit.dart:27-68).                             *)
THEOREM ItemsShownTheorem == WardrobeSpec => []ItemsShownAreStored
  <1>1. WardrobeInit => (~adrift => ItemsAgree)
    BY WardrobeInitSound
  <1>2. WardrobeSound /\ (~adrift => ItemsAgree) /\ [WardrobeNext]_wardrobeVars
          => (~adrift => ItemsAgree)'
    BY ItemsNextAgree
  <1>3. (~adrift => ItemsAgree) => ItemsShownAreStored
    BY DEF ItemsAgree, ShownOnce, OneEach, ItemsGone, ItemsChanged, ItemsAdded, Adding, At, IdsOf,
           ItemsShownAreStored
  <1>. QED BY <1>1, <1>2, <1>3, WardrobeSoundTheorem, PTL DEF WardrobeSpec
=============================================================================
