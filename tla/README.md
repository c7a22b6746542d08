# Verification of fitfolio

TLA+ models of fitfolio (a FastAPI service and its Flutter app), checked with TLC on small
instances, and theorems about them proved with TLAPS for every instance. Paths below are relative
to the root of the repository.

1. [The system](#1-the-system)
2. [How the code becomes a model](#2-how-the-code-becomes-a-model)
3. [Modules](#3-modules)
4. [Runs](#4-runs)
5. [What the checks found](#5-what-the-checks-found)
6. [Proofs](#6-proofs)
7. [What is not modelled](#7-what-is-not-modelled)
8. [Plan](#8-plan)

To check a model: `tlc -config MCAuth_sessions.cfg MCAuth`. To check the proofs of a module:
`tlapm AuthProofs.tla`, and so on for each `...Proofs.tla`.

## 1. The system

The API keeps its state in PostgreSQL and its images in an object store; its handlers are coroutines
of one process, with one database session each, at READ COMMITTED. The app is one Dart isolate that
talks to the API through one HTTP client with an interceptor. There are no queues and no background
jobs: everything that happens is a request, a response, an upload to the store, a restart, or time
passing.

| component | state | operations | hard because | correct if |
|---|---|---|---|---|
| Accounts and sessions, `api/app/api/v1/routers/auth.py`, `api/app/api/deps.py`, `api/app/core/security.py` | tables users (email, token_version) and revoked_tokens; the tokens clients hold | register, login, refresh, logout, logout-all, authentication of every request | each handler reads, awaits, then commits what it concluded; tokens are spent by a unique index; responses get lost; versions are read and written back | a session has at most one live refresh token, and none again once it has none; what logout-all ended stays ended; an email has one account |
| Friendships, `routers/friends.py` | table friendships | send, accept, decline, remove, two lists | two users act on one row; the unique constraint is on the ordered pair only | an answer is given once; what is removed stays removed; two users have two rows only if their requests crossed |
| Sharing, `routers/shares.py` | table shares, with no foreign key on the resource | share and unshare an item or an outfit, shared-with-me | three reads precede the insert, and friendships and resources change meanwhile | shares follow friendships; a share exists once |
| Outfits, `routers/outfits.py` | tables outfits and outfit_items | create, rename, delete, replace the items, reads | a bulk DELETE and INSERTs in one transaction, overlapping with other such transactions and with deletions; answers are read by three statements | an outfit has items of its owner that exist; a replacement is applied entirely or not at all, and answered as it was applied |
| Clothing items and images, `routers/clothes.py`, `services/storage_service.py` | table clothing_items; the bucket | create, update, delete, upload-url, confirm | clients write to the bucket directly; bucket and table change one after the other; the store may fail; the process may stop in between | an item gets and loses an image only by a request for it; a confirmed image is one that was verified |
| Image upload in the app, `app/lib/features/wardrobe/data/wardrobe_repository.dart` | none | upload-url, PUT to the store, confirm | three requests to two servers | uses each key once |
| Session in the app, `app/lib/core/network/auth_interceptor.dart`, `core/storage/token_storage.dart`, `features/auth` | two tokens in the secure storage, the refreshing flag, AuthStatus | attach the token, refresh and retry after a 401, login, logout, restore at start | three tabs load at once through one interceptor; the flag is read before an await and set after it; the two tokens are two writes; rotation happens at the API whether or not the answer arrives | the app goes on with a spent token whose successor is live only between a lost answer, or a stop, and the next time its tokens are saved or cleared; the flag never sticks; nothing is kept after a logout; the unknown status and a logout end |
| Wardrobe in the app, `features/wardrobe` | the list shown, its status | load, add, delete, upload a photo | methods overlap; a list read before a change arrives after it; addItem hides its failure from the screen | the list shown is the one the API has; a photo goes to the item it was taken for |
| Outfits in the app, `features/outfits` | the list shown, its status | load, create (two requests), delete | as above, and the second request may fail alone | as above; what is reported as created has its items |
| Friends in the app, `features/friends` | the two lists shown, their status | load both, accept, decline, send | the lists are read one after the other while both change; they hold rows, and a person may have two | a person is shown once, unless the friendship shown is over or two requests had crossed; an answered request goes; the spinner comes down |
| Router and home shell of the app, `core/router` | the route | redirect by AuthStatus | | only screens for the status |
| Profile, `routers/users.py` | users.display_name | read, update | the update commits a row that logout-all may have changed since | it never sets a version back |
| Password policy, `api/app/core/passwords.py`, `api/app/schemas/auth.py` | none | validate a registration | cases, blanks around, lengths at their bounds | exactly the weak passwords are refused |
| Rate limiter, `api/app/core/rate_limit.py` | counters of a library, in the memory of the process | count a call, admit or reject it | fixed windows; a restart forgets them | bursts are bounded; who is blocked gets through again |
| Configuration and start, `api/app/core/config.py`, `api/app/main.py` | the settings of the process | start, refuse to start | | no default in production |
| Migrations, deployment, localisation | | | | |

Interactions. The app reaches the API by HTTP; `ClientSession` is its side of what `Auth` does and
both are joined by `SessionStore`, which `Auth` implements and `ClientSession` is built on. Shares
read friendships and the owners of items and outfits; the deletion of an item changes outfits (by
cascade) and the bucket; shares refer to items and outfits without a foreign key. The cubits of the
app are clients of the handlers, whose effects they take as atomic. A registration, a login and a
refresh pass the limiter, and a registration the password policy, before the handlers of `Auth` run:
`Admission` is what is in front of them.

The hazards, each at its line and with the properties that catch it, are the `hazards` of
`PROJECT.json`.

## 2. How the code becomes a model

**One action is the code from one await to the next.** A handler (or a Dart method) runs alone
between two awaits; every query, commit or request is a point where the others run. What it
remembers across an await is in its record `req[h]` (`call[c]` in the app) and may be stale when it is
used. An UPDATE or DELETE is by primary key: it overwrites whatever the row has become, and what it
does to a row that is gone is modelled (an UPDATE fails with StaleDataError, a DELETE does nothing).
Unique indexes and foreign keys decide at the commit (`JtiIndexAdmits`, `EmailIndexAdmits`,
`PairIndexAdmits`, `ShareIndexAdmits`, `ParentsPresent`). A handler that gives up answers at once:
status codes and bodies are left out unless the next step depends on them.

**Crashes.** `Crash` drops every request in flight and keeps what was committed, or done in the
bucket. `Restart` does the same to the app and keeps the secure storage.

**Data.** A token pair is the jti of its refresh token; a password is a sequence of characters in
`Passwords`, where the policy reads it, and a login that is accepted or rejected in `Auth`; emails,
keys, ids and photos are model values; the age of a pair is one of fresh, access_expired, expired; an
image is good or bad for `confirm`; the items of an outfit as the app chose them are one selection.

**Histories.** Some properties need to know what happened before. These variables are written and
never read by a guard: `acceptedOnce` (rows that have been accepted) and `overtaken` (requests whose
row another answer has changed, or between whose users another has put a row, since they read) in
Social, `crowded` (PUTs that overlap another of their outfit) in Outfits, `signedOut` and `torn`
(which of saving and clearing its tokens the app was at when it was stopped) in ClientSession,
`crossed` (users with a second row put beside the first) in FriendsCubit, `judged` and `recent` in
Admission, `adrift` (a load crossed a change, or an answer was lost), `promised` (what an outfit was
created with) and `unanswered` in the cubits. One is read: `pickedFor`, with `unanswered`, so that a
photo is picked only once.

**Bounds.** Ids (`Jti`, `Fid`, `Sid`, `Items`, `Keys`, `Ids`, `Rows`) are drawn once and never again,
which bounds every behaviour; `Handlers` and `Calls` bound what runs at a time; `MaxVersion` bounds
token_version, and the count of a window stops one above its limit, where it no longer matters. They
bound how much happens, not what: with two handlers every pair of requests races at every await, and
the third id of a kind is there where a property needs a token and two successors, or an entry and two
that pass it.

**Assumptions** are constants, so that the runs that need one name it and a run without it shows why:

| constant | assumes | where it is dropped |
|---|---|---|
| `SerialLogoutAll` | the logout-all calls of one user do not overlap | `auth_logout_all_overlap` |
| `CallsApart` | no request of the app is in flight while the user logs in or out | `client_logout` |
| `AppItems` | the items whose images come from the app, which uses a key once, in order; a client of the others uses keys as it likes | both kinds are in `wardrobe_main` |

Where an assumption is about one moment and not about a whole behaviour, the property names it
instead. `HoldsSuccessor` and `StoredTokensMatch` say nothing from a stop between two writes (`torn`)
until the next pair is saved or the tokens are cleared, the second only if the stop was within a save;
and `HoldsSuccessor` says nothing while a failed refresh is clearing the tokens (`Clearing`), which is
what follows an answer that was lost. `PersonShownOnce` lets a person be in both lists by a friendship
that is over, or once two requests have crossed (`crossed`).

**Fairness.** Three specifications state it, each weak and each over what has begun and nothing else.

- `ClientSession` and `FriendsCubit`: `WF_vars(CallProgress(c))` for each request,
  `WF_vars(FormProgress)` for the login or logout under way, `WF_vars(Progress(c))` for each method.
  The event loop of Dart runs whatever is ready, every await of the storage completes, and a request
  is answered or fails. The last of these is an assumption about the network: the HTTP client sets a
  timeout for connecting (`api_client.dart:12-13`, 15 s) and none for an answer, so a server that
  holds a connection for ever is excluded. How a request ends is not assumed: `ServedError`,
  `RefreshLost`, `RetryFails`, `LogOutNotServed`, `LoadFails` are in the same disjunction as success,
  so a liveness property has to hold whichever of them happens, every time. Nobody has to begin a
  request, log in or out, nothing has to expire and the app has not to restart.
- `Admission`: `WF_vars(Tick)`, for time passes. Nobody has to call, stop calling, start or stop the
  process.

The handlers of the API state none: a process may be stopped at any await, and what was to follow is
then lost, which the models have (`Crash`). `FlagMeansRefreshing` (a flag that is up has a request that
will take it down) is the safety side of what the interceptor has to do.

## 3. Modules

| module | models |
|---|---|
| `SessionStore` | what the API promises about refresh tokens: a session is opened, rotated and closed, each in one atomic step |
| `Auth` | the handlers of `auth.py`, `get_current_user` and PATCH /users/me; claims `ImplementsSessionStore` |
| `Social` | the handlers of `friends.py` and `shares.py` in one state, for shares read friendships |
| `Outfits` | `outfits.py` with what its handlers read for their answers, and the deletion of items |
| `Wardrobe` | the image handlers, PATCH and the deletion in `clothes.py`, the bucket, and the clients that upload to it |
| `ClientSession` | the interceptor, the token storage, the auth repository and cubit; EXTENDS SessionStore, whose actions are what the API does when a request is served |
| `ListCubit` | what the wardrobe and the outfits of the app share: a list that is loaded and deleted from |
| `WardrobeCubit`, `OutfitsCubit` | extend ListCubit with adding, photos and two-step creation |
| `FriendsCubit` | the two lists of friends |
| `Passwords` | the password policy, and the reference it is checked against (`Strong`) |
| `Admission` | extends Passwords with the start of the process, the bodies of registrations and the limiter |
| `MC...` | the instances: owners, symmetry |
| `AuthProofs`, `SocialProofs`, `OutfitsProofs`, `WardrobeProofs`, `ClientSessionProofs`, `FriendsCubitProofs`, `AdmissionProofs` | the theorems about the module they are named after |
| `ListCubitProofs` | the theorems about `OutfitsCubit` and `WardrobeCubit`, and the lemmas about lists both need |

Definitions named "Should ..." in a comment are variants of the definition after them, as a
plausible mistake would have it: no specification uses them. Each property has one that breaks it
(`mutants` in `PROJECT.json`), so that each is known to depend on the code.

**Auth.** `account` is users.email, `version` users.token_version, `revoked` revoked_tokens.
`claims[j]` is what a pair says (subject, version) and the token its session began with; `life[j]` its
age. Register is `RegisterLookup`, then `RegisterInsert` or `RegisterInsertFails` (another took the
email meanwhile), then `RegisterMint`. Refresh is `RefreshCheckRevoked`, `RefreshLoadUser`, then
`RefreshCommit` or `RefreshCommitFails` (another spent the jti). A new pair whose answer is lost is as
live as any other, and nobody presents it: `Receive` leaves that open, and `RefreshLost` of
ClientSession is what it does to the app. The new pair carries the version that was read before the
commit (`VersionRead`), not the one the row has by then. Logout-all is `LogoutAllAuthenticate` and
`LogoutAllCommit`, which writes the version read, plus one. `UpdateMeCommit` writes the columns that
were set only, so it leaves the version of the row alone, whatever it has become.

**Social.** Rows are kept after their deletion with the status "deleted", so that an action can find
them gone. `AreFriends` is false when two rows match: `scalar_one_or_none` raises. Two rows between
two users are possible, for the unique constraint does not see the opposite direction; `SendingToo`
are the requests that may put a second one in. The deletion of a share looks for the resource
(`UnshareOwned`), then for the share (`UnshareRead`), and commits.

**Outfits.** `PutDelete` remembers the links its DELETE saw; `PutCommit` takes exactly those out and
puts the new ones in. A link another PUT committed in between survives, or, if it is asked for too,
makes the commit fail with the primary key of outfit_items. Then the answer is read: `ReadRow`,
`ReadLinks`, `ReadItems`, each seeing what is committed by then; `loaded` is what the session of the
handler holds of the links, from `PutOwned` on.

**Wardrobe.** `phase` and `prefix` belong to a key, `object` to the bucket. The storage calls are
synchronous, so `LoopFree` keeps other handlers out between the check of a bad object and its removal,
but not `Upload`, which goes straight to the bucket. `DeleteObject` and `DeleteCommit` are two steps
with a crash or a confirm possible between. `PatchCommit` touches nothing of what is modelled, which is
what the property about it says.

**ClientSession.** `accepted` is the set of pairs whose access token the API accepts. A 401 goes
through `OnError401`, `ReadRefreshToken` (where the flag is set: an await after it was checked),
`RefreshServed`, `SaveAccess`, `SaveRefresh`, `RetryOk`, or at any point to `ClearAccess`,
`ClearRefresh`. `RefreshLost` rotates like `RefreshServed`, for the API has committed, and goes on
like `RefreshFails`, for the app cannot tell the two apart: the successor is live and held by nobody.
`boot` marks the request of `checkAuthStatus`, whose end decides the status.

**Cubits.** A method is a record in `call`; a request of it is served at some step between its start
and its answer. `stored` is what the API has. A load carries the list it read in `answer` and is
`crossed` when a change began or was under way while it ran. In FriendsCubit what is listed are rows
of friendships; `peer` is the other user of a row and `mine` has the rows this user asked for. A row
may go and another of the same two users come, and `Insert` admits one of each direction, as the
unique constraint does. `UploadToFirst` is `_submit` of the add screen, which uploads to
`state.items.first` whether or not addItem succeeded. `Without` is `.where(... != id)` place by place,
as a recursive function. What the two list cubits have under one name in Dart is `Outfits...` and
`Wardrobe...` here, so that one module can extend both.

**Admission.** A character has the kinds of `_character_classes` that it counts for (`KindsOf`): none,
one, or two, like the circled a (U+24D0), which is `islower` and not `isalnum`. `Weak` is
`validate_password_strength`, test by test; `Strong` says the same of single characters and positions,
without lowercasing, stripping or searching. A bucket (an endpoint and an address) has the hits of its
window in `count` and the ticks the window has left in `left`: `Hit` counts every call that reaches
the endpoint, and sets the end of the window only for its first. An invalid registration never gets
there (`RegisterRefused`), for FastAPI validates before it calls the decorated endpoint. `Stop`
forgets all windows.

## 4. Runs

Distinct states are those TLC reports under the symmetry the MC module declares; the symmetric
constants are model values nothing tells apart.

| run | instance | states | shows |
|---|---|---|---|
| `auth_sessions` | 2 rows for 1 email, 3 pairs, 2 handlers, version up to 2, SerialLogoutAll | 621,158 | any two of refresh, logout, logout-all and PATCH /users/me on any pairs leave one live token per session, never revive a dead session, keep the version of a session, and implement SessionStore; after logout-all everything older is refused, for good |
| `auth_logout_all_overlap` | 2 pairs, without SerialLogoutAll | violation | `StaleStaysStale` fails, see 5 |
| `social_main` | 2 users, 2 friendship rows, 2 share rows, 1 resource, 2 handlers | 337,234 | a share needs a friendship that was once accepted; one share per resource and user; two users have a second row only if their requests crossed; a removed row is not brought back; an answer changes only through another that had found the request pending |
| `social_granted` | the same | violation | `GrantedToFriends` fails, see 5 |
| `outfits_main` | 1 outfit, its owner's 2 items and 1 of another, 2 handlers | 516,992 | links stay valid, no PUT is applied in part even if it fails or the process stops, and a PUT that overlaps no other leaves exactly what it asked for and answers with it |
| `wardrobe_main` | 2 items of one user (one filled by the app, one by a client without manners), 3 keys, 2 handlers | 1,358,503 | no two items show one object; an image comes and goes only by a request for its own item, and never by a PATCH; what the app's item shows was verified and stays until a deletion |
| `client_quiet` | 3 pairs, 2 requests at a time, CallsApart | 756,809 | requests that both got past the flag and refresh the same token, answers that get lost after the commit, expiry, logout-all elsewhere, restarts at any await: the flag comes down; the pair in the storage is one pair and not one whose successor lives, but from a lost answer or a stop until the tokens are saved or cleared next; a logout leaves nothing; the unknown status and a logout end |
| `client_logout` | 2 requests, without CallsApart | violation | `SignedOutHoldsNothing` fails, see 5 |
| `wardrobe_cubit` | 2 items, 2 photos, 2 methods | 211,771 | the list is the stored one but for changes still unanswered, unless a load crossed a change or an answer was lost; a photo whose POST was answered is on the item it was picked for |
| `outfits_cubit` | 3 outfits, 1 selection, 2 methods | 534,232 | the same for outfits; an outfit that was reported as created has its items |
| `friends_cubit` | 2 rows, 2 other users, 2 methods, the other users at any time | 590,594 | a person is shown once, because the friends are read first, unless by a friendship that is over or by requests that crossed; an answered request is gone when its load has been answered; the spinner comes down |
| `admission` | 292 registrations (73 passwords), 1 address, 1 call in 3 ticks and 2 calls in 2 | 21,337 | the policy refuses exactly what its reference refuses; an address gets at most twice the limit less one calls through in the time of a window, which is reached; whoever is blocked gets through again however often he calls |

Deadlock is checked in every run: no state is without a step.

Why the instances are large enough. A race needs two handlers, two requests or two methods. A race
that takes three at once is not covered by the runs; the safety properties of `client_quiet` and
`friends_cubit` were also checked with three, under symmetry, which a run with a liveness property
cannot use (456,287 and 1,563,115 states), and the inductive invariants of `ListCubitProofs` for the
wardrobe with three methods (2,332,769 states). A session that is rotated and whose second token is
raced for needs three pairs. Two friendship rows are both directions of one pair, or a row and the one
sent after it was removed; two share rows are a duplicate. Three keys are an image, its replacement
and one of the other item. Two rows of the friends screen are a friendship that is removed and asked
for again, or two requests that crossed; with three rows and two methods the safety properties were
checked under symmetry too (2,713,920 states). Three outfits are one in the list and two that are
created around a load. Passwords have every combination of the four kinds of character at the one
accepted length, one shorter and one longer, and every combination of a letter and the circled a at
that length; identifiers are too short to be looked for or just long enough, and a name is missing or
too long for its field. Two limits differ in both numbers, so that a window ends while the other runs,
and the buckets of two addresses do not touch each other. Where the theorems of section 6 apply, no
bound is needed.

## 5. What the checks found

Three disagreements between the code and what its documents say, each found by a run:

- **Overlapping logout-all calls** (`auth_logout_all_overlap`, `routers/auth.py:159`). Both read version
  0; the first commits 1; a login mints a pair at 1; a third call raises the version to 2 and makes it
  stale; the second then commits its 0 + 1, and the pair, which the docstring calls rejected, is
  accepted again. An `UPDATE ... SET token_version = token_version + 1` would
  not lose the update.
- **A share granted to somebody who is no longer a friend** (`social_granted`, `routers/shares.py:69`).
  The friendship is removed between the check and the insert.
- **Tokens written after a logout** (`client_logout`, `auth_repository.dart:66`). A refresh is under
  way when the user logs out: the logout presents the old token, which was rotated already, clears the
  storage, and then the interceptor saves the new pair. The next start of the app is logged in.

More behaviours that are in the models and limit what the properties say:

- Two users who send each other a request at the same time both succeed; afterwards every query
  that expects one row between them raises (the root README lists the missing constraint).
  `AreFriends` and `SendCheck` have it.
- Two overlapping PUTs of one outfit leave the union of both: `LonePutReplaces` promises something
  only to a PUT that overlaps no other.
- A confirm that commits between the two steps of a deletion leaves an object nobody refers to, and
  two requests to accept and decline one request are both answered with success: the last one counts.
- Of several requests that meet an expired token together, those that find the flag up are failed and
  not retried (`OnErrorPassesOn`, `auth_interceptor.dart:35`); the home screen loads three tabs at once.
- A PUT of an outfit that was committed is answered 404 if the outfit is deleted before it is read
  again, and 500 if an item is deleted between the reads of its link and of the item
  (`ReadItemsFails`).
- A restart of the API gives every address its allowance anew.
- The test for a single repeated character decides only for a character of two kinds, such as the
  circled a: all others have one kind at most and are refused for that. Ten equal letters and a blank
  pass.
- Capital sigma is lowered by its place in the word: the display name ΟΔΟΣ becomes οδος, with the final
  form, and is not found in ΟΔΟΣΑΒΓΔ12, which becomes οδοσαβγδ12 and is accepted. This is outside the
  model and the theorem, which leave that character out.
- A refresh that was committed and whose answer is lost leaves the app with a spent token and the live
  one with nobody (`RefreshLost`). The catch clears both tokens, and the user has to log in again; if
  the app is stopped before that, it starts with the spent token, and clears it at the first 401.
- The two lists of friends hold friendships, not persons: one who was removed and asked again between
  the two reads is shown as a friend and as asking until the next load, and so is one whose request
  crossed the user's, once the user's is accepted, until the other request is answered or removed.
- addItem that fails lets the screen upload the photo to the first item shown, an older one
  (`AnsweredPhotoOnItsItem` is about photos whose POST was answered; the root README names the
  assumption).

## 6. Proofs

The theorems hold for any sets of users, tokens, rows, keys, handlers and methods. Each rests on the
named assumption of its module and on nothing else, except where the table names one more. The
assumptions say that None is not one of the ids and that owners are users; those of `Admission` that
limits and windows are positive; those of `Passwords` what the code has in its constants and in `str`:
the listed passwords are in lowercase, not empty and without blanks at their ends; a character has any
of the four kinds; its lowercase form is one character, which does not depend on its neighbours and is
its own lowercase form, and that of a blank is a blank. `str.lower` does that for every character but
U+0130, which becomes two, and U+03A3, capital sigma, which becomes one of two; the theorem is about
texts without them.

| module | theorem | establishes |
|---|---|---|
| `AuthProofs` | `TypeCorrect` | `[]TypeOK` |
| | `SessionHasOneLiveToken` | `[]OneLivePerSession` |
| | `DeadSessionTheorem` | `DeadSessionStaysDead` |
| | `SessionVersionTheorem` | `[]SessionKeepsVersion` |
| | `EmailTheorem` | `[]EmailUnique`, which no run checks |
| | `StaleTheorem`, `LogoutAllTheorem` | `StaleStaysStale`, `LogoutAllEndsAll`, each ASSUME SerialLogoutAll |
| | `Implementation` | `ImplementsSessionStore`: Auth implements SessionStore |
| `SocialProofs` | `TypeCorrect` | `[]TypeOK` |
| | `ShareFollowsTheorem`, `ShareUniqueTheorem` | `[]ShareFollowsFriendship`, `[]ShareUnique` |
| | `RemovedStaysTheorem` | `RemovedStaysRemoved` |
| | `AnswerIsFinalTheorem` | `AnswerIsFinal` |
| | `CrossingTheorem` | `SecondRowOnlyByCrossing` |
| `OutfitsProofs` | `TypeCorrect` | `[]TypeOK` |
| | `LinksValidTheorem` | `[]LinksValid` |
| | `PutAllOrNothingTheorem` | `PutAllOrNothing` |
| | `LonePutReplacesTheorem`, `LonePutShowsTheorem` | `LonePutReplaces`, `LonePutShows` |
| `WardrobeProofs` | `TypeCorrect` | `[]TypeOK` |
| | `ImagesDisjointTheorem` | `[]ImagesDisjoint` |
| | `ImageOnlyByOwnRequestTheorem` | `ImageOnlyByOwnRequest` |
| | `ShownImageGoodTheorem` | `ShownImageGood` |
| `ClientSessionProofs` | `TypeCorrect` | `[]TypeOK` |
| | `StoreOneLive`, `StoreDeadStaysDead` | what SessionStore itself promises, whoever uses it |
| | `ClientUsesStore` | every step of the app and the API it talks to is a step of SessionStore or a stutter |
| | `FlagTheorem` | `[]FlagMeansRefreshing` |
| | `SuccessorTheorem` | `[]HoldsSuccessor` |
| | `StoredTokensTheorem`, `SignedOutTheorem` | `[]StoredTokensMatch`, `[]SignedOutHoldsNothing`, each ASSUME CallsApart |
| `FriendsCubitProofs` | `PersonShownOnceTheorem` | `[]PersonShownOnce` |
| | `AnsweredRequestTheorem` | `AnsweredRequestGoes` |
| `ListCubitProofs` | `CreatedIsCompleteTheorem` | `[]CreatedIsComplete` |
| | `OutfitsShownTheorem` | `[]OutfitsShownAreStored` |
| | `WardrobeTypeTheorem` | `[]WardrobeTypeOK` |
| | `AnsweredPhotoTheorem` | `[]AnsweredPhotoOnItsItem` |
| | `ItemsShownTheorem` | `[]ItemsShownAreStored` |
| `AdmissionProofs` | `TypeCorrect` | `[]TypeOK` |
| | `BurstTheorem` | `[]BurstBounded` |
| | `PolicyTheorem` | `[]PolicyHolds` |

The proofs share one plan. Seldom is a type invariant inductive, or a property of the runs: what a
handler does after an await depends on what it read before. So each module says, in `Holds` or under a
name like it, what a handler or method that stands at one await may still rely on whatever the others
have written since. That, the types and a few facts about the tables are the inductive invariant
(`WellFormed`, `OutfitsSound`, `WardrobeSound`). There is one lemma for a step that moves one handler
and keeps the tables growing, and then one lemma per request or method; each property follows from the
invariant and a few kinds of step.

**Auth.** A handler that is about to commit holds an issued token of a real user; issued pairs have an
owner and a session that began with an issued pair (`TokensWellFormed`); a refresh about to commit still
has the subject and the version of the token it presented (`RequestsWellFormed`). Every step is then
classified by what it does to the tokens (`NextTokenStep`): it opens a session (`Opens`), rotates one
(`Rotates`), spends a token (`Spends`) or leaves them alone (`Keeps`). All that is particular to
handlers and interleavings ends there. `OneLivePerSession`, `DeadSessionStaysDead`,
`SessionKeepsVersion` and the refinement follow from the four kinds of step alone; `Implementation` maps
them to `Open`, `Rotate`, `Close` and a stutter. The unique index on the jti is what makes a rotation
start from a live token. `StaleStaysStale` needs that versions only grow. `VersionInv` adds to
`WellFormed` that no pair has a version the row has not reached (`VersionsBounded`), that a logout-all
about to commit has read the version the row still has (`SeenIsCurrent`), and that a user has at most
one such handler (`OneLogoutAll`, where SerialLogoutAll enters). `LogoutAllEndsAll` follows from the
same invariant: the commit raises the version above every pair.

**Social.** What a share relies on is never undone: the resource is the user's, and user and peer have
been friends (`HaveBeenFriends`), though they may not be any more. A row that was ever inserted keeps
its two users and is never taken back to absent (`DbGrows`). With that `ShareFollowsFriendship` is an
invariant although the friendship may be removed between the check and the insert. `AnswerIsFinal` and
`SecondRowOnlyByCrossing` add that every handler that would act on what somebody else has changed is in
`overtaken` (`AnswerMarked`, `CrossingMarked`).

**Outfits.** Past its checks a PUT asks only for items of the owner of its outfit, and owners do not
change: that keeps `LinksValid`. `LoneInv` adds that no overlap escapes the history (`CrowdedKnown`) and
that a PUT that overlaps no other stays on course (`LonePutOnCourse`): what its DELETE saw is all there
is to delete, and after its commit the outfit has what was asked for but for items deleted since, and so
has each part of the answer.

**Wardrobe.** A key is bound to an item when it is drawn and never again (`KeysWellFormed`), a confirm
past its check has a key of its own item, and so has every image (`ImagesWellFormed`): two items cannot
show one object. `ShownImageGood` is about the items filled by the app. `Once` adds what its single PUT
and single confirm of a key give: one request at most confirms a key, once it is shown that request has
been answered, and what was accepted is still good when it is committed.

**ClientSession.** `ClientUsesStore` gives `OneLive` to the app. `Track` is the heart of
`HoldsSuccessor`: the new pair of a refresh or a login is the newest of its session, and nobody else
knows it before it is stored, so no other request can rotate it. A lost answer makes a pair nobody
knows; from then on the request is clearing, which `Clearing` and, after a stop, `torn` name, until
the spent token is out of the storage (`HoldsLast`). Neither needs CallsApart. `StoredTokensMatch` and
`SignedOutHoldsNothing` do: the run `client_logout` violates the second without it. With it, either no
form or no request is under way (`Apart`), of the tokens the app knows one at most is live
(`OneKnown`) and while one request saves a pair none is (`OneSaves`), so two requests never write
pairs at a time (`Match`); and after a logout nobody has a token left (`Empty`).

**FriendsCubit.** The friends are read first. A row keeps its two users and only advances, from absent
to pending to an answer to removed (`RowsAdvance`): one that was listed as accepted never asks again,
so the requests that are read second have another row of that person if any. Two present rows of one
person are rows that crossed, for the one put in last was put beside the other (`TwoRowsCrossed`); if
the first is not present any more, it is removed. So what a load has read satisfies `Once` when it has
been read and ever after (`OnceStays`), whatever the other methods and users do.

**ListCubit.** `OutfitsCubit` and `WardrobeCubit` have the load and the deletion in common, and their
proofs too. `ListSound`: rows have ids that were drawn, each once; a deleted row does not come back; and
a load that no change crossed is the only method that has to do with the rows, so that what it has read
is still what they are. `OutfitsSound` adds that a creation between its two requests has an outfit
nobody else creates. `WardrobeSound` adds that a photo is carried by one method at most and goes to the
item it was picked for unless its POST was not answered. Then `OutfitsAgree` and `ItemsAgree` say how
the list shown may differ from the stored one: each difference is the change of one method whose answer
is still to come. They hold while `adrift` does not. The lemmas about the lists (what putting in front,
taking out and changing one entry leave) are at the head of the module; where they need induction they
argue by the least position, for the theorems of the library that take a predicate cannot be used.

**Admission.** The limiter: `WindowHolds` relates the count of a bucket, the ticks its window has left
and what is recent. While a window runs, what it has admitted is no more than it counts and than the
limit, its first hit is the oldest of that, and what the window before admitted lacks its first hit,
for that is as old as a window is long. So both together are less than twice the limit. A bucket is
reasoned about alone (`HitHolds`, `TickHolds`), with any numbers. The policy: each test of the code is
shown to be what the reference says position by position. `OccursWhereSpelled`: the lowercase form of
one text is in that of another exactly where the one spells the other; `CommonWhereWrapped`: a text
without its blanks is in the list exactly when it is an entry between blanks; `KindsDiffer`: the kinds
are fewer than two exactly when there are no two that differ, of two characters or of one;
`RepeatedIsSame`: the characters are one exactly when no two places differ. `AcceptableIsStrong` puts
the tests together.

Only model-checked: liveness (`StatusSettles`, `LogOutEnds`, `SpinnerEnds`, `BlockedGetsThrough`), for
the proof system does not reason about fairness. Every other property of a passing run is proved. The
type invariants of OutfitsCubit, FriendsCubit and Admission are part of what is proved and not among
the properties of the runs.

## 7. What is not modelled

- Reads that change nothing and are not part of a change: lists and details of the API, the access
  check of a GET, shared-with-me. `Outfits` has what its handlers read for their answers, `FriendsCubit`
  and `ListCubit` the lists they show.
- In the app, sharing an outfit and the list of what a friend shares: they touch neither the lists nor
  the status of the cubit. (A first load of that list that fails leaves its spinner, as the root README
  says.)
- Hashing of passwords; in passwords, emails and names the characters U+0130 and U+03A3; which reason a
  refusal names.
- Calls while the limiter is disabled pass, and `BurstBounded` does not count them.
- Settings other than those `Admission` and the constants have; the object store at the start;
  migrations, deployment, routes, layout, localisation.
- Login and refresh with an invalid body: refused before the limiter counts them, like a registration.
- In the app: a secure storage that throws; a body of an answer that cannot be parsed (the cubits
  catch `ApiException` only, `friends_cubit.dart:20`, so it would leave the spinner up); other devices
  of the same user (but for the end of a session in `EndedElsewhere`); a request that is served after
  the app has given it up; the lists that stay in memory after a logout, which the root README lists.
- In Outfits: a transaction that PostgreSQL aborts to break a deadlock ends like one a crash ends.

## 8. Plan

Done so far: sections 3, 4 and 6. The order was the session first (its races are the ones with
consequences for every other request), then the shared tables, then the image store, then the app; the
updates, the reads behind an answer, the password policy, the limiter and liveness; then the proofs,
in the same order, of every property of the passing runs but the liveness properties.

What is left:

1. The atomic effects the cubits take from the handlers (an item or outfit appears, changes or goes in
   one step) as a specification of their own that `Wardrobe` and `Outfits` implement, as
   `SessionStore` is for `Auth` and `ClientSession`.
2. The safety part of the liveness properties: an unknown status, a logout or a spinner that is up has
   a step that goes on (as `FlagMeansRefreshing` says of the flag), for any number of requests.
