---------------------------- MODULE WardrobeCubit ----------------------------
(***************************************************************************)
(* The wardrobe of the app: wardrobe_cubit.dart, the requests that          *)
(* wardrobe_repository.dart makes for it, and the screen that adds an item  *)
(* (add_clothing_item_screen.dart), all under app/lib/features/wardrobe.    *)
(*                                                                          *)
(* The screen does not learn which item addItem made, nor whether it made   *)
(* one: it uploads the photo to state.items.first.  The answer to the POST, *)
(* the new list and that choice are one step, for nothing awaits anything   *)
(* but a finished future in between.  The three requests of uploadImage,    *)
(* which module Wardrobe has one by one, are served at once here.  The      *)
(* content of an entry is the photo of the item; a photo is picked once.    *)
(***************************************************************************)
EXTENDS ListCubit

VARIABLES pickedFor,  \* history: the item made by the form each photo was picked in
          unanswered  \* history: the photos whose form got no answer to its POST

wardrobeVars == <<stored, drawn, shown, status, call, adrift, pickedFor, unanswered>>

-----------------------------------------------------------------------------

Photos == Contents

AddPCs == {"add", "add_answer"}

UploadPCs == {"upload", "upload_answer"}

WardrobeTypeOK ==
  /\ stored \in Lists /\ shown \in Lists
  /\ drawn \subseteq Ids
  /\ status \in Statuses
  /\ call \in [Calls -> Call({"idle"} \cup LoadPCs \cup DeletePCs \cup AddPCs \cup UploadPCs)]
  /\ adrift \in BOOLEAN
  /\ pickedFor \in [Photos -> Ids \cup {None}]
  /\ unanswered \subseteq Photos

WardrobeInit == /\ ListInit
                /\ pickedFor = [p \in Photos |-> None]
                /\ unanswered = {}

InUse(p) == \/ \E c \in Calls : call[c].content = p
            \/ pickedFor[p] # None \/ p \in unanswered

-----------------------------------------------------------------------------
(* _submit and addItem                                                      *)

(* The form is saved, with a photo or without.                             *)
Add(c) ==
  /\ \E p \in {q \in Photos : ~InUse(q)} \cup {None} : StartWrite(c, "add", None, p)
  /\ UNCHANGED <<stored, drawn, shown, status, adrift, pickedFor, unanswered>>

AddServed(c) ==
  /\ At(c, "add")
  /\ \E i \in Ids \ drawn :
       /\ stored' = Cons(NewEntry(i), stored)
       /\ drawn' = drawn \cup {i}
       /\ call' = [call EXCEPT ![c].pc = "add_answer", ![c].id = i]
       /\ pickedFor' = IF call[c].content = None THEN pickedFor
                       ELSE [pickedFor EXCEPT ![call[c].content] = i]
  /\ UNCHANGED <<shown, status, adrift, unanswered>>

(* _submit goes on with the first item shown, if there is any: uploadImage  *)
(* begins.  Two uploads of one item may be answered out of order.           *)
UploadToFirst(c, list) ==
  /\ call[c].content # None
  /\ list # <<>>
  /\ call' = [call EXCEPT ![c].pc = "upload", ![c].id = Head(list).id]

NothingToUpload(c, list) ==
  /\ call[c].content = None \/ list = <<>>
  /\ Done(c)

OtherUploadTo(c, i) == \E d \in Calls \ {c} : call[d].pc \in UploadPCs /\ call[d].id = i

(* Should the new item be shown after the others:                          *)
ShownLast(c) == Append(shown, NewEntry(call[c].id))

WithNew(c) == Cons(NewEntry(call[c].id), shown)

AddAnswered(c) ==
  /\ At(c, "add_answer")
  /\ shown' = WithNew(c)
  /\ UploadToFirst(c, shown') \/ NothingToUpload(c, shown')
  /\ adrift' = (adrift \/ OtherUploadTo(c, Head(shown').id))
  /\ UNCHANGED <<stored, drawn, status, pickedFor, unanswered>>

(* The cubit keeps the error to itself: _submit goes on all the same.       *)
AddFails(c) ==
  /\ call[c].pc \in AddPCs
  /\ UploadToFirst(c, shown) \/ NothingToUpload(c, shown)
  /\ adrift' = \/ adrift \/ At(c, "add_answer")
               \/ shown # <<>> /\ OtherUploadTo(c, Head(shown).id)
  /\ unanswered' = unanswered \cup ({call[c].content} \ {None})
  /\ UNCHANGED <<stored, drawn, shown, status, pickedFor>>

-----------------------------------------------------------------------------
(* uploadImage                                                              *)

UploadServed(c) ==
  /\ At(c, "upload")
  /\ call[c].id \in IdsOf(stored)
  /\ stored' = WithContent(stored, call[c].id, call[c].content)
  /\ Goto(c, "upload_answer")
  /\ UNCHANGED <<drawn, shown, status, adrift, pickedFor, unanswered>>

(* Should the updated item be put first, whether it is shown or not:       *)
UploadUpserts(c) ==
  /\ At(c, "upload_answer")
  /\ shown' = Cons([id |-> call[c].id, content |-> call[c].content], Without(shown, call[c].id))
  /\ Done(c)
  /\ UNCHANGED <<stored, drawn, status, adrift, pickedFor, unanswered>>

UploadAnswered(c) ==
  /\ At(c, "upload_answer")
  /\ shown' = WithContent(shown, call[c].id, call[c].content)
  /\ Done(c)
  /\ UNCHANGED <<stored, drawn, status, adrift, pickedFor, unanswered>>

UploadFails(c) ==
  /\ call[c].pc \in UploadPCs
  /\ adrift' = (adrift \/ At(c, "upload_answer"))
  /\ Done(c)
  /\ UNCHANGED <<stored, drawn, shown, status, pickedFor, unanswered>>

-----------------------------------------------------------------------------

WardrobeNext == \E c \in Calls :
  \/ ListStep(c) /\ UNCHANGED <<pickedFor, unanswered>>
  \/ Add(c) \/ AddServed(c) \/ AddAnswered(c) \/ AddFails(c)
  \/ UploadServed(c) \/ UploadAnswered(c) \/ UploadFails(c)

WardrobeSpec == WardrobeInit /\ [][WardrobeNext]_wardrobeVars

-----------------------------------------------------------------------------

(* What the cubit makes of the answers agrees with what the API has, in     *)
(* whatever order they come: unless a load has crossed a change or an       *)
(* answer was lost, each item is shown once and as it is, and the two lists *)
(* differ only by what is still to be answered                              *)
(* (wardrobe_cubit.dart:27-68, clothes.py:106-125).                         *)
ItemsShownAreStored ==
  ~adrift =>
    /\ \A j, k \in DOMAIN shown : shown[j].id = shown[k].id => j = k
    /\ \A e \in ToSet(shown) \ ToSet(stored) :
         \E c \in Calls : call[c].id = e.id /\ call[c].pc \in {"delete_answer", "upload_answer"}
    /\ \A i \in IdsOf(stored) \ IdsOf(shown) :
         \E c \in Calls : call[c].id = i /\ At(c, "add_answer")

(* A photo is shown by the item it was picked for, whatever else runs at    *)
(* the time, if the POST that makes the item was answered; if not, it goes  *)
(* to an older item (add_clothing_item_screen.dart:58-68,                   *)
(* wardrobe_cubit.dart:42; README.md:196 names the assumption).             *)
AnsweredPhotoOnItsItem ==
  \A e \in ToSet(stored) :
    e.content \in Photos \ unanswered => pickedFor[e.content] = e.id
=============================================================================
