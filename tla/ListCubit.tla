------------------------------ MODULE ListCubit ------------------------------
(***************************************************************************)
(* What the cubits of the app that show a list have in common               *)
(* (app/lib/features/wardrobe/cubit/wardrobe_cubit.dart and                 *)
(* app/lib/features/outfits/cubit/outfits_cubit.dart): loading the list and *)
(* deleting from it.  Modules WardrobeCubit and OutfitsCubit add the rest.  *)
(*                                                                          *)
(* A method of a cubit is asynchronous and nothing keeps two from running   *)
(* at once: the user may leave a screen while it saves, pull the list down, *)
(* or open a screen that loads it.  Each request of a method is served at   *)
(* some moment between its start and its answer, and may fail before it is  *)
(* served or lose its answer.  The answer and the code up to the next await *)
(* are one step.  An entry of a list is an id and what the entry holds.     *)
(*                                                                          *)
(* Left out: other devices of the user, and a request that is served after  *)
(* the app has given it up.                                                 *)
(***************************************************************************)
EXTENDS SequencesExt

CONSTANTS Ids,      \* ids of rows, never drawn twice
          Contents, \* what an entry may hold
          Calls,    \* bound: methods running at a time
          None      \* absent value, and the content of a new row

ASSUME ListAssumption == None \notin Ids \cup Contents

VARIABLES stored, \* the rows of the user, the newest first
          drawn,  \* ids that have been given to a row
          shown,  \* state.items or state.outfits
          status, \* state.status
          call,   \* the methods that are running
          adrift  \* history: a load or a lost answer may have made shown differ from stored

listVars == <<stored, drawn, shown, status, call, adrift>>

-----------------------------------------------------------------------------

Entry == [id : Ids, content : Contents \cup {None}]

Lists == Seq(Entry)

NewEntry(i) == [id |-> i, content |-> None]

Statuses == {"initial", "loading", "loaded", "error"}

LoadPCs == {"load", "load_answer"}

DeletePCs == {"delete", "delete_answer"}

(* answer: the list a load was answered with; crossed: a row was added or   *)
(* deleted, or may have been, while it ran.                                 *)
Call(pcs) == [pc : pcs, id : Ids \cup {None}, content : Contents \cup {None},
              answer : Lists, crossed : BOOLEAN]

NoCall == [pc |-> "idle", id |-> None, content |-> None, answer |-> <<>>, crossed |-> FALSE]

IdsOf(list) == {e.id : e \in ToSet(list)}

(* where((e) => e.id != i), place by place: SelectSeq is out of the proof   *)
(* system's reach.                                                          *)
Without(list, i) ==
  LET kept[k \in 1..Len(list)] ==
        LET before == IF k = 1 THEN <<>> ELSE kept[k - 1]
        IN  IF list[k].id = i THEN before ELSE Append(before, list[k])
  IN  IF list = <<>> THEN <<>> ELSE kept[Len(list)]

(* Should the id be put where the content goes:                            *)
WithId(list, i, x) ==
  [k \in DOMAIN list |-> IF list[k].id = i THEN [list[k] EXCEPT !.content = i] ELSE list[k]]

WithContent(list, i, x) ==
  [k \in DOMAIN list |-> IF list[k].id = i THEN [list[k] EXCEPT !.content = x] ELSE list[k]]

ListInit == /\ \E s \in {<<>>} \cup {<<NewEntry(i)>> : i \in Ids} :
                 stored = s /\ drawn = IdsOf(s)
            /\ shown = <<>>
            /\ status = "initial"
            /\ call = [c \in Calls |-> NoCall]
            /\ adrift = TRUE

-----------------------------------------------------------------------------

At(c, pc) == call[c].pc = pc

Goto(c, pc) == call' = [call EXCEPT ![c].pc = pc]

Done(c) == call' = [call EXCEPT ![c] = NoCall]

Loading(c) == call[c].pc \in LoadPCs

Writing(c) == call[c].pc # "idle" /\ ~Loading(c)

(* A method that adds or deletes begins: the loads that run have crossed it.*)
StartWrite(c, pc, i, x) ==
  /\ At(c, "idle")
  /\ call' = [d \in Calls |->
       IF d = c THEN [NoCall EXCEPT !.pc = pc, !.id = i, !.content = x]
       ELSE [call[d] EXCEPT !.crossed = Loading(d)]]

-----------------------------------------------------------------------------
(* loadItems, loadOutfits                                                   *)

Load(c) ==
  /\ At(c, "idle")
  /\ status' = "loading"
  /\ call' = [call EXCEPT ![c] = [NoCall EXCEPT !.pc = "load",
                                                !.crossed = \E d \in Calls : Writing(d)]]
  /\ UNCHANGED <<stored, drawn, shown, adrift>>

LoadServed(c) ==
  /\ At(c, "load")
  /\ call' = [call EXCEPT ![c].pc = "load_answer", ![c].answer = stored]
  /\ UNCHANGED <<stored, drawn, shown, status, adrift>>

LoadAnswered(c) ==
  /\ At(c, "load_answer")
  /\ shown' = call[c].answer
  /\ status' = "loaded"
  /\ adrift' = call[c].crossed
  /\ Done(c)
  /\ UNCHANGED <<stored, drawn>>

LoadFails(c) ==
  /\ Loading(c)
  /\ status' = "error"
  /\ Done(c)
  /\ UNCHANGED <<stored, drawn, shown, adrift>>

-----------------------------------------------------------------------------
(* deleteItem, deleteOutfit: the button is on an entry of a loaded list.    *)

Delete(c) ==
  /\ status = "loaded"
  /\ \E i \in IdsOf(shown) : StartWrite(c, "delete", i, None)
  /\ UNCHANGED <<stored, drawn, shown, status, adrift>>

DeleteServed(c) ==
  /\ At(c, "delete")
  /\ call[c].id \in IdsOf(stored)
  /\ stored' = Without(stored, call[c].id)
  /\ Goto(c, "delete_answer")
  /\ UNCHANGED <<drawn, shown, status, adrift>>

DeleteAnswered(c) ==
  /\ At(c, "delete_answer")
  /\ shown' = Without(shown, call[c].id)
  /\ Done(c)
  /\ UNCHANGED <<stored, drawn, status, adrift>>

(* No such row any more, no connection, or the answer is lost: the list     *)
(* stays as it is.                                                          *)
DeleteFails(c) ==
  /\ call[c].pc \in DeletePCs
  /\ adrift' = (adrift \/ At(c, "delete_answer"))
  /\ Done(c)
  /\ UNCHANGED <<stored, drawn, shown, status>>

ListStep(c) == \/ Load(c) \/ LoadServed(c) \/ LoadAnswered(c) \/ LoadFails(c)
               \/ Delete(c) \/ DeleteServed(c) \/ DeleteAnswered(c) \/ DeleteFails(c)
=============================================================================
