----------------------------- MODULE OutfitsCubit -----------------------------
(***************************************************************************)
(* The outfits of the app: outfits_cubit.dart, the requests that            *)
(* outfits_repository.dart makes for it, and the screen that creates an     *)
(* outfit (create_outfit_screen.dart), all under app/lib/features/outfits.  *)
(*                                                                          *)
(* createOutfit is two requests, one that creates the outfit and one that   *)
(* sets its items, and the second may fail after the first has succeeded.   *)
(* The content of an entry is the selection its items were set to, None for *)
(* no items; that the PUT is refused when an item is gone is one of its     *)
(* failures.                                                                *)
(***************************************************************************)
EXTENDS ListCubit

VARIABLE promised \* history: the selection each outfit was created with, None if createOutfit failed

outfitsVars == <<stored, drawn, shown, status, call, adrift, promised>>

-----------------------------------------------------------------------------

CreatePCs == {"create", "create_answer", "put", "put_answer"}

(* The outfit exists and the method that creates it still runs.            *)
Creating(c) == call[c].pc \in CreatePCs \ {"create"}

OutfitsTypeOK ==
  /\ stored \in Lists /\ shown \in Lists
  /\ drawn \subseteq Ids
  /\ status \in Statuses
  /\ call \in [Calls -> Call({"idle"} \cup LoadPCs \cup DeletePCs \cup CreatePCs)]
  /\ adrift \in BOOLEAN
  /\ promised \in [Ids -> Contents \cup {None}]

OutfitsInit == ListInit /\ promised = [i \in Ids |-> None]

-----------------------------------------------------------------------------
(* _submit and createOutfit                                                 *)

Create(c) ==
  /\ \E x \in Contents \cup {None} : StartWrite(c, "create", None, x)
  /\ UNCHANGED <<stored, drawn, shown, status, adrift, promised>>

CreateServed(c) ==
  /\ At(c, "create")
  /\ \E i \in Ids \ drawn :
       /\ stored' = Cons(NewEntry(i), stored)
       /\ drawn' = drawn \cup {i}
       /\ call' = [call EXCEPT ![c].pc = "create_answer", ![c].id = i]
       /\ promised' = [promised EXCEPT ![i] = call[c].content]
  /\ UNCHANGED <<shown, status, adrift>>

ShowCreated(c) ==
  shown' = Cons([id |-> call[c].id, content |-> call[c].content], shown)

(* Nothing was selected.                                                   *)
CreateAnswered(c) ==
  /\ At(c, "create_answer")
  /\ call[c].content = None
  /\ ShowCreated(c)
  /\ Done(c)
  /\ UNCHANGED <<stored, drawn, status, adrift, promised>>

(* Should the outfit be shown before its items are set:                    *)
PutShowsFirst(c) ==
  /\ At(c, "create_answer")
  /\ call[c].content # None
  /\ shown' = Cons(NewEntry(call[c].id), shown)
  /\ Goto(c, "put")
  /\ UNCHANGED <<stored, drawn, status, adrift, promised>>

Put(c) ==
  /\ At(c, "create_answer")
  /\ call[c].content # None
  /\ Goto(c, "put")
  /\ UNCHANGED <<stored, drawn, shown, status, adrift, promised>>

PutServed(c) ==
  /\ At(c, "put")
  /\ call[c].id \in IdsOf(stored)
  /\ stored' = WithContent(stored, call[c].id, call[c].content)
  /\ Goto(c, "put_answer")
  /\ UNCHANGED <<drawn, shown, status, adrift, promised>>

PutAnswered(c) ==
  /\ At(c, "put_answer")
  /\ ShowCreated(c)
  /\ Done(c)
  /\ UNCHANGED <<stored, drawn, status, adrift, promised>>

(* Should a failure of the second request be ignored:                      *)
CreateIgnoresPut(c) ==
  /\ call[c].pc \in CreatePCs
  /\ Done(c)
  /\ IF call[c].pc \in {"put", "put_answer"}
     THEN ShowCreated(c) /\ UNCHANGED <<adrift, promised>>
     ELSE /\ adrift' = (adrift \/ Creating(c))
          /\ promised' = [i \in Ids |-> IF i = call[c].id THEN None ELSE promised[i]]
          /\ UNCHANGED shown
  /\ UNCHANGED <<stored, drawn, status>>

(* null is returned whichever request has failed: an outfit that was        *)
(* created stays, with its items or without them.                           *)
CreateFails(c) ==
  /\ call[c].pc \in CreatePCs
  /\ adrift' = (adrift \/ Creating(c))
  /\ promised' = [i \in Ids |-> IF i = call[c].id THEN None ELSE promised[i]]
  /\ Done(c)
  /\ UNCHANGED <<stored, drawn, shown, status>>

-----------------------------------------------------------------------------

OutfitsNext == \E c \in Calls :
  \/ ListStep(c) /\ UNCHANGED promised
  \/ Create(c) \/ CreateServed(c) \/ CreateAnswered(c) \/ CreateFails(c)
  \/ Put(c) \/ PutServed(c) \/ PutAnswered(c)

OutfitsSpec == OutfitsInit /\ [][OutfitsNext]_outfitsVars

-----------------------------------------------------------------------------

(* What the cubit makes of the answers agrees with what the API has, in     *)
(* whatever order they come: unless a load has crossed a change or a        *)
(* creation or deletion has failed half-way, each outfit is shown once and  *)
(* with its items, and the two lists differ only by what is still to be     *)
(* answered (outfits_cubit.dart:25-46, outfits.py:88-98).                   *)
OutfitsShownAreStored ==
  ~adrift =>
    /\ \A j, k \in DOMAIN shown : shown[j].id = shown[k].id => j = k
    /\ \A e \in ToSet(shown) \ ToSet(stored) :
         \E c \in Calls : call[c].id = e.id /\ At(c, "delete_answer")
    /\ \A i \in IdsOf(stored) \ IdsOf(shown) :
         \E c \in Calls : call[c].id = i /\ Creating(c)

(* Whatever createOutfit has returned as created has the items that were    *)
(* selected for it: an outfit that has lost them on the way is one whose    *)
(* creation failed (outfits_cubit.dart:25-37).                              *)
CreatedIsComplete ==
  \A e \in ToSet(stored) :
    e.content = promised[e.id] \/ promised[e.id] = None
      \/ \E c \in Calls : call[c].id = e.id /\ Creating(c)
=============================================================================
