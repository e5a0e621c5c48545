# Verification of face-recognition-sdk

TLA+ models of the repository's own logic, model-checked with TLC on small
instances and proved with TLAPS where the result should hold for every size.
`PROJECT.json` lists the components, runs, mutants, source map, hazards and
theorems; this file explains them.

## 1. The system

| Part | State it keeps | Operations | What makes it hard |
| --- | --- | --- | --- |
| OSS gateway `services/oss-gateway/oss_gateway/app.py` | one `asyncio.Lock` per service key; the locals of each handler | proxying; `recover`, `add_face`, `delete`, `image` (with migration of database images), `flush`, background `worker` | every `await` lets other handlers, the worker thread, the backend and the store run; a call that timed out may still be executed |
| Journal `journal.py` | SQLite tables `images`, `uploads` (intents), `deletes` (prepared deletes and outbox) | `begin_upload`, `complete_upload`, `discard_upload`, `plan_delete`, `finish_delete`, `discard_delete`, `flush` | survives crashes; read and written by handlers and by flush threads; an administrator edits it |
| Object store client `store.py` | none (objects live in S3/RustFS) | `put`, `get`, `delete`, `initialize`, `check` | timeouts, partial failure of a batch |
| Recognition backend (CompreFace, external) | subjects, faces, image ids | `POST/GET/DELETE /faces`, `/subjects` | commits after its client stopped waiting |
| Four SDKs `sdk/{python,go,java,nodejs}` | configuration only | typed calls with a retry loop | which calls may be repeated, what a lost response means |
| facesdk-web `src/views/*.vue`, `src/api/face.js` | the list of subjects on the screen, dialogs, service keys in storage | detect, compare, search, subject management | handlers that give way at every await; refreshes overtaking each other |
| RuoYi example `examples/ruoyi-integration/FaceService.java` | none of its own; the accounts of the host application | register, login by face, compare, detect, delete, check | several calls without a lock; accounts and faces change between them |
| Deployment (compose, Kubernetes, nginx, monitoring) | - | - | configuration, no program logic |

Clients, the web UI and the RuoYi service call the gateway over HTTP; the
gateway calls the backend and the store, and keeps in the journal what it must
not forget between those two. The gateway's correctness rests on five facts:
the association of a face leads to that face's own picture; the original of a
registered face is never lost; no stored object becomes unreachable; a deleted
face loses its association; and nothing of this depends on when a call that
timed out is executed, nor on crashes.

## 2. Modules

```
GatewayTypes            constants, assumptions, row and message types
  |-- CompreFace        the backend: faces, subjects, calls in flight   (external)
  |-- ObjectStore       objects by key, puts in flight
  |-- Journal           the tables and the transactions of journal.py
        \-- OssGateway  the process: lock, handlers, flush threads, crashes
              \-- GatewayProperties   invariants, refinement, fairness, liveness
                    |-- MCGateway         instances for TLC
                    \-- OssGateway_proofs the write gate; no object is lost track of
                          \-- Originals_proofs  each face keeps its own picture;
                                                 the gateway implements Archive
Archive                 what the gateway promises of originals
  |-- Archive_proofs      TLAPS proofs
  \-- GatewayProperties   INSTANCE Archive WITH the refinement mapping
```

**Journal.** One operator per method, one transaction each. An operation id is
as fresh as the object key of its row, so a row is identified by its contents.
`finish_delete` takes the set of rows finished in one step of a task;
`finish_delete_of` is the same method with `deleted_ids`. Two ready rows that
are equal have no object key (a key leaves `images` when its row becomes
ready), so a set loses nothing a flush would notice.

**CompreFace.** `subject[f]` and `picture[f]` of every image id, and `calls`,
the mutations received and not executed. `Late` says which operations may
still execute after the gateway stopped waiting; `Bypass` which writes may
arrive without the gateway.

**OssGateway.** A step is what a task does between two awaits. `pc[t]` names
the await; `local[r]` holds the variables of a handler (`unresolved`, the
intents still to recover, the snapshot of ids, the operation at hand, the
reply). The correspondence with `app.py`:

| Code | Actions |
| --- | --- |
| `proxy` up to `authorize`, `async with lock` | `Arrive`, `Acquire`, `Release` |
| `recover`, upload intents | `RecoverMigration`, `RecoverSnapshot`, `SettleAdopt`, `SettlePending`, `SettleAmbiguous`, `SettleConflict` (IntegrityError), `RecoverFails` |
| `recover`, prepared deletes | `RecoverPlans`, `Confirm` |
| `Journal.flush` on a pool thread | `FlushRead`, `FlushRow`, `FlushUnqueue`, `FlushFails`, `FlushEnds`, `WorkerTick` |
| `image` | `OpenImage`, `ServeImage`, `BeginMigration`, `PutSucceeds`, `PutFails` |
| `add_face` | `AddFace`, `BeginAdd`, `PutSucceeds`, `PutFails`, `AddSucceeded`, `AddRejected`, `Unanswered` |
| `delete` | `DeleteFaces`, `DeleteSubjects`, `PlanSubjects`, `DeleteSucceeded`, `DeleteRejected`, `Unanswered` |
| proxied requests under the lock | `Respond`, `Rename`, `RenameAnswered` |
| process death and restart | `Crash` |
| reconciliation through the journal's methods, gateway stopped | `ReconcileUpload`, `ReconcileUndeleted`, `ReconcileDeleted` |

The object key of an upload is chosen in `AddFace` although the code generates
it after the ids arrive; nobody can see it before `begin_upload`. A migrated
image's `GET .../img` and the put that follows are separate steps. A
`delete_object` that outlives its request is not modelled: keys are never
reused, so a repeated delete of a dead key changes nothing.

**Archive.** The abstract specification: faces, their pictures, and the one life
of an object key (fresh, claimed by an intent, held by a face, condemned in the
outbox, gone), without requests, locks, tables or crashes. `GatewayProperties`
maps the gateway to it: `original` is the table `images`, `object` the store,
`registered` the picture of a face the backend has, and `Stage` reads the stage
of a key off the three tables. `KeepsArchive` says that every step of the
gateway is a step of the archive or none.

```
Requests                the requests of all clients, and their exceptions
  \-- Routes              one request through proxy(), to the backend and back
        |-- MCRoutes            names and identifiers for TLC
        \-- Routes_proofs       TLAPS proofs
```

**Requests.** One operator per request a client makes. Names travel in paths and
are encoded by the client, decoded by the gateway and once more by the backend,
so a name is a sequence of tokens with the number of times each is
percent-encoded; `quote`, `unquote` and `Resolved` (the dot segments URL
libraries remove) work on those. `PythonRaises`, `GoRaises`, ... make an
exception of a response.

**Routes.** `OssGateway` starts where a request has been understood; this module
is the way there. `Ask` is the client, with its checks of identifiers and keys.
`uri`, `image`, `verify`, `face_delete`, `subject_delete`, `mutation`,
`read_only`, `Locked` are the variables of `proxy` of the same names;
`TooLarge`, `Unauthorized`, `RecoverFails`, `Gate`, `RefuseAdd`, `RefuseDelete`,
... its early returns in their order; `BeginAdd` and `PlanDelete` the point
after which the operation is in the journal. `Executed` is what the backend
takes the request for: it reads the raw path itself and shares no definition
with the gateway, so agreement is a result. A read of the backend may be refused
or fail (`Failures`): `authorize` and `face_ids` forward whatever status they
get, wherever they are called. `Settle` is the end of an operation by the
status, `AddUnreadable` the addition whose 2xx names no image: `add_face` raises
(app.py:204) and the intent stays. All other requests of the service
are the variable `unresolved`.

```
SdkRules                what each SDK repeats, retries and accepts
  \-- RetryClient       calls over a lossy transport, executed late
        |-- MCRetryClient       instances for TLC
        \-- RetryClient_proofs  TLAPS proofs
```

**SdkRules.** Five clients (the Python SDK has two) answer three questions each
in their own way: which operations are repeated (`PythonSafe`, `GoSafe`,
`JavaSafe`, `NodeSafe`), what ends an attempt so that another follows
(`GoRetried`, ...), and which 2xx responses are a result (`NodeAccepted`, ...).
They are kept apart so that a rule can be read beside its code. An endpoint is
the sequence of its segments, because the Go client looks at the last one.

**RetryClient.** `calls[c]` is the state of one call: `step` is where its loop
is, `attempt` the loop variable, `image` what it buffered, `reply` the response
on its way, `maxRetries` the setting of its client. `sent`, `processed` and `executed` hold requests; a request stays
executable after its sender gave up on it. `Subject` and the subjects of the
backend decide whether a creation or a delete can succeed.

| Action | Python `client.py` / `async_client.py` | Go `client.go` | Java `FaceSDKClient.java` | Node `index.js` |
| --- | --- | --- | --- | --- |
| `Start` | `_prepare_file` 163 / `_read_file` 158 | 105-110 | 118-416 (a `File` is not read) | `_readImage` 62 |
| `Send` | 120 / 110-114 | 131-141 | 455 | 83-93 |
| `Receive` | 122-125 / 115-119 | 153-169 | 456-479 | 94-103 |
| `Timeout` | 128-131 / 120-125 | 141-151 | 432-445 | 104-107 |
| `Wake` | 123, 131 / 117, 123 | `waitRetry` 175 | 438 | `_delay` 112 |
| `Cancel` | - / cancelled task | 128, 179 | 439-442 | - |

`Timeout` is any attempt without a response; `Receive` may find the response
broken off. `Elsewhere` creates or deletes the subject of a call for somebody
else. `Process` may execute a request and still answer 502 or 504, as a
proxy does.

```
FacePages               Gateway.face_ids page by page, beside one mutation
  |-- MCFacePages         an instance for TLC
  \-- FacePages_proofs    TLAPS proofs
SdkDocuments            from a response document to a result, client by client
  \-- SdkResults          a client, its calls, keys and thresholds
        |-- MCSdkResults        documents for TLC
        \-- SdkResults_proofs   TLAPS proofs
```

**FacePages.** `OssGateway` takes a listing of faces in one step; the code
reads it page by page and the collection may change in between. This module
follows one mutation whose answer is lost: the listing before it, its execution
between any two pages of the listings after it (`CommitAdd`, `CommitDelete`),
and what `recover` concludes (`RecoverUpload`, `RecoverDelete`). Its invariants
say why the one step of `OssGateway` loses no conclusion: pages that shift while
a delete takes effect can hide a face that is still there, but make recovery
neither confirm a delete too early nor adopt a wrong face.

**SdkDocuments.** Pure operators, one per client and operation, beside each
other: `PythonSearch`, `GoSearch`, ..., `WebSearch`, and the same for detection,
comparison, feature and confidence. A document is a record with `Missing` for
an absent field; old documents (`faces`, `results`, a server-side verdict) are
modelled where a client still reads them. `DetectDocument`, `SearchDocument` and
`VerifyDocument` say which documents there are: what a field holds when it is
sent, and which fields may be absent (`Optional`). A score is an integer between 0 and
`MaxScore`; a float32 is its four bytes, the most significant first, and Base64
is modelled by its digits. The views of facesdk-web parse responses themselves
and are the fifth client.

**SdkResults.** `Construct` makes a client, with the checks of its constructor;
`Ask` checks the arguments and chooses the key; `TakeFaces`, `TakeMatches`,
`TakeVerdict` and `TakeFeature` make a result of any document of the instance.
The search view filters by the slider it finds after the response
(SearchView.vue:122-126), and `Slide` is the user who moves it meanwhile; its
`SearchRanked` is about the threshold the view went by.
How the document gets to the client is `RetryClient`'s matter. Two differences
between the clients are modelled and are no finding, because the documentation
speaks of SDKs or not of the case: the views send the old key when the service's
own key is empty (`||`, and the settings page saves empty keys), where an SDK
raises; and Go and the view take a confidence of 0 for an absent one.

```
Recognizer              the recognition service as applications see it  (external)
  |-- FaceService         the RuoYi integration
  |-- SubjectsView        the subjects page of the web console
        \-- Applications   both on one service, with a history of promises
              |-- MCApplications   an instance for TLC
              \-- Applications_proofs   TLAPS proofs
```

**FaceService.** A request of the host application is a `session`; its `at` says
which call to the service it waits for. `registerFace` and `loginByFace` detect
first and go on with exactly one face (`Detect`); `Execute` is the moment the
service performs the write, `Answer` the success, `Fail` every other end, after
which the write may still execute. `Search` reads the matches, `Verify` checks
owner and account afterwards. `ChangeAccount` is the administrator of the host.

**SubjectsView.** `task[t]` is a write whose handler awaits, `fetching[k]` a
refresh between its awaits: `Listed` is `getSubjects`, `Counted` each `getFaces`
of the `Promise.all` (`With` adds its row, null for one that failed), `Show` the assignment of the
list, whichever refresh it comes from. `Succeeded` closes a write and starts a
refresh in one turn, as the handlers do.

**Applications.** The composition: both write to one `Recognizer`, a write that
was given up may execute late. The variables `quiet`, `gone`, `barred`, `idle`
and `known` remember what one user (`Watched`) has been promised; no action
reads them.

Operators whose comment starts with "Mutant" are deliberately wrong variants of
the definition below them. They are not reachable from `Spec`; each is put in
the place of its original to show that a property is able to fail.

## 3. Properties and runs

| Property | Meaning |
| --- | --- |
| `TypeOK` | types of all variables |
| `PicturesMatch` | an association leads to the picture the face was registered with |
| `OriginalKept` | a registered face's original is stored, and associated or still covered by an intent |
| `NoOrphan` | every stored object is named by a row of the journal |
| `NoStaleImage` | a deleted face keeps its association only while a prepared delete names it |
| `OneIntent` | at most one operation of a service is unconfirmed |
| `ReadsOwnOriginal` | a read under way finds the right object, whatever the flush threads do |
| `CompletedMeansErased` | the header `x-facesdk-object-delete: completed` is never sent while an object of the delete remains |
| `RowsOwnObjects` | an associated object belongs to one face and is not in the outbox, even with bypassing writers, late commits and crashes |
| `KeepsArchive` | the gateway implements `Archive`: an object is erased only after its key was condemned, a key is condemned only while no registered face has its picture, a face gets a key only with its own picture in it |
| `OthersRetried` | what docs/object-storage.md:49 promises of failed deletions |
| `SnapshotShowsUploadOnly` | what the comment at app.py:355 promises of recovery snapshots |
| `AtMostOnce` | a subject creation or a face registration is executed at most once |
| `AnswersAreTrue` | a write that returns a result was executed; a refused creation or registration was not |
| `NothingLeftBehind` | after a definite answer nothing of a call that is not repeated is left to execute |
| `AttemptsUsedUp`, `RetriesExhausted` | a repeatable call fails only when its attempts are used up: of all clients, and of all but Go |
| `SameImage`, `BufferedImage` | all attempts of a call carry the same image: of all calls, and of all but those that give the Java client a file |
| `CallsReturn` | every call returns or raises |
| `ConfirmedGone` | recovery confirms a delete only if none of its faces is registered, wherever between two pages it took effect |
| `AdoptedFresh` | recovery gives the new picture to the face of its upload and no other |
| `KnownExact` | the ids recorded in an intent are exactly the faces there were before its mutation |
| `SearchRanked` | a search returns each candidate of each face that reaches the threshold once, the best first |
| `OneToOne` | a comparison has a verdict exactly for one face on each side and a threshold in range, and the boundary matches |
| `FeatureDecodes` | a feature is made of exactly one face, and decodes, little endian, to its embedding, for every SDK |
| `ConfidenceKept` | the confidences are those of the boxes, face by face |
| `KeyOfService` | an SDK sends the key of the called service, the old one only in place of a missing one, never an empty one |
| `PlansWhatIsAsked` | the faces the caller names, those the journal plans to remove and those the backend removes are the same, whatever a name contains |
| `AnswersAreHonest` | nothing has happened behind a 4xx and no intent is left for it; what happened behind a 5xx is still in the journal |
| `WritesWait` | while an operation is unconfirmed no write passes the gateway and every read does |
| `StatusKept` | a client reports the status it was answered (404 stays 404), and a refused key only when the key was refused or missing |
| `DeletedCannotVerify` | once the deletion of a user's subject is confirmed, no verification that begins later succeeds, unless it is registered again |
| `VerifiedIsOwner` | only the owner of the matched subject is verified, with one face in the picture and an account active at some time meanwhile |
| `ShownIsCurrent` | a list from the refresh started last misses no write the console has confirmed |
| `RequestsEnd` | every request that arrives leaves |
| `OutboxDrains` | objects in the outbox are deleted eventually |
| `UploadsRecover` | a face whose registration was never answered gets its association |

| Run | Instance | Shows |
| --- | --- | --- |
| `gateway_core` | 1 request, the worker, 1 legacy and 1 new face, 2 subjects, 2 keys, one row per flush, late adds and deletes, 1 crash | six safety properties, and that the gateway implements `Archive` |
| `gateway_bypass` | 2 new faces, 2 subjects, two rows per flush, 1 crash, writers that bypass the gateway, late adds and renames | what survives them; ambiguous and conflicting recovery |
| `gateway_rename` | 1 legacy and 1 new face, 1 key, late renames, no writer that bypasses the gateway | **violation**, see below |
| `gateway_ends` | 2 requests, 1 legacy and 1 new face, 1 key, 1 crash, no symmetry | two handlers at every pair of awaits: one intent, reads find their own picture, every request ends, outbox and uploads recover once outages do |
| `gateway_head` | 1 new face, 2 keys, one of which the store refuses to delete | **violation** |
| `face_pages` | 7 faces, 6 of one subject, pages of 2, at most 2 pages | lists made before a mutation are exact, conclusions from lists made during it are true |
| `sdk_calls` | calls of all five clients, other writers, a file that changes | registrations happen once, answers are true, attempts are used up, the image is buffered, calls return |
| `sdk_go_body` | 1 Go call | **violation** |
| `sdk_java_file` | 1 Java call | **violation** |
| `sdk_results` | five clients, thresholds on, between and beyond the bounds, documents with up to two faces, old ones included | results are what `protocol.md` promises, keys are those of the service |
| `routes` | 7 clients, 14 operations, 8 names, 5 identifiers, every kind of key and body | client, gateway and backend agree on a path; answers and exceptions are honest |
| `applications` | 2 users, 1 host request, 1 deletion and 2 refreshes of the console, counts of one subject that may fail to arrive | what a confirmed write promises to the other side |

**Findings.** `gateway_rename` refutes the comment at `app.py:355-356`: a rename
that timed out releases the lock and leaves no intent, so it can commit before
the recovery snapshot of a later upload whose registration has not been executed.
In the run the renamed face is one from before the gateway, without a row in
`images`; it is the one new face of the snapshot, and the next step, `SettleAdopt`,
binds the new picture to it: with `PicturesMatch` as its invariant the same
instance has the same trace, one step longer. A renamed face that already has
its row ends otherwise: the INSERT of `complete_upload` violates the primary key
(journal.py:58, `SettleConflict`), and every request of the service is answered
503 until the journal is reconciled. The code takes the late commit into account
for uploads and deletes (app.py:135), not for renames.

Two statements of `docs/protocol.md` about all SDKs hold of some. "Transient
network errors" are retried (line 28), but the Go client gives up when a body
breaks off (`sdk_go_body`). Images are buffered in memory (line 28), but the
`File` variants of the Java client read the file at each attempt
(`sdk_java_file`). The Node client wants a JSON object of every 2xx but 204, of
a delete as well, where line 14 accepts any 2xx; `NodeAccepted` models it.

`docs/object-storage.md:49` says that a failed deletion is retried every five
seconds. `Journal.flush` stops at the first object the store refuses
(journal.py:111-116) and begins with the same row the next time: under fair
scheduling, and with a store that refuses one object only, the objects behind it
are never tried (`gateway_head`). `OutboxDrains` therefore needs a store that
recovers for every object.

A repeated DELETE is at-least-once: its first request may be executed after
the second was answered, and may then remove a subject that was created again
in between. `NothingLeftBehind` says when this cannot happen: `maxRetries = 0`.
Each call of the model has a `maxRetries` of its own, from 0 to the bound, so
that `sdk_calls` has deletes of both kinds.

**Bounds.** `MaxCrash`, `MaxCalls` (calls in flight when a mutation is sent) and
`MaxRows` (delete rows when a mutation is sent) cap what would otherwise grow;
faces and keys are consumed and bound the number of uploads. Two keys give an
upload that starts while another one's object is being discarded, or a migration
after an upload; two calls give a late call beside the next one. `FlushLimit` is
`LIMIT` of the select: one row per flush makes the limit bite whenever two rows
wait (`gateway_core`). Two rows of one flush, and a failure at one of them, occur
in `gateway_head` only, since `MaxRows = 1` keeps the outbox of `gateway_bypass`,
`gateway_ends` and `gateway_rename` to one row; what such a flush leaves behind
is otherwise in the proofs, which hold for every `FlushLimit`. The lock admits one handler at a time, so a
second request adds only the handover, which `gateway_ends` covers. Symmetry
(faces except legacy ones, keys, subjects, requests) is used for safety only.

In `routes` the names are `x`, `x/x`, one that reads `x%2Fx`, `xx`, the empty
name, the two dot segments and one of 51 characters; the first four have a face
each, so that reading one as another shows. The identifiers are an UUID in two
spellings, one without hyphens (which only Python accepts), `x`, and one that
continues as another route. In `applications`, `MaxActive = 2` lets any two of
a host request, a write of the console, a refresh and a late write overlap,
`MaxFaces = 1` makes a second registration of a subject refused, and writes,
account changes and counts that fail to arrive are about the watched user
(`Edited`, `Supervised`, `Failing`), the other one being there to be mistaken
for.

In `sdk_calls` the other actors are `Elsewhere` and the requests the call itself
has given up on; clients have a `maxRetries` of 0 to 3, the default, so that a
call has a first, a middle and a last attempt, or only one.

In `face_pages`, pages of two and a limit of two pages give a first page, a last
one and one that is refused, which six faces of one subject reach; the face
outside `Mine` shifts positions in the listings of all faces. In `sdk_results`,
two faces are where the order of faces, the order of candidates and the count of
faces first differ; two candidates with the same score test the joining of
faces, and embeddings of one, two and three words give each padding of Base64.

**Fairness.** Handlers and flush threads are weakly fair: every await ends with
an answer, an error or a timeout (httpx 120 s, boto3 5/20 s). `Acquire` is
strongly fair because `asyncio.Lock` wakes waiters in order. The worker's loop
is weakly fair. That is all `LiveSpec` assumes. That outages end is a hypothesis
inside the properties: `OutboxDrains` holds if the store accepts the deletion of
each object when it is tried again and again, and the select reaches its row
(`StoreRecovers`; SQLite scans in insertion order), `UploadsRecover` if the
backend answers recovery reads that are asked again and again
(`BackendRecovers`) and authenticated requests keep arriving. `StuckSpec` is
`LiveSpec` with a store that refuses one object. `CallsReturn`
needs weak fairness of `Send`, `Timeout` and `Wake` of each call: all five
clients bound an exchange (requests and aiohttp timeouts, `http.Client.Timeout`,
OkHttp, axios) and every delay passes. Nothing is assumed of the backend.

## 4. Proofs

`OssGateway_proofs` proves, for any number of requests, faces, keys and
subjects and any sets `Late` and `Bypass`,

* `TypeCorrect`: `Spec => []TypeOK`,
* `WritesGated`: `Spec => []OneIntent`.

`OneIntent` is not inductive. The inductive invariant `IInv` adds that only the
owner of the lock is past it (`OwnerInside`), and for each point of a handler
what it may rely on (`Promise`): while everything it has seen is resolved, the
journal holds no upload intent beyond those it still has to look at or its own,
and no prepared delete once recovery is over. The proof has a lemma per method
of the journal, the lemmas `OwnerMoves`, `OwnerLeaves` and `HandlersStay` for
the frame, and a lemma per action. `IInv` was model-checked before it was
proved. The proofs use the named assumptions of `GatewayTypes` only: kinds of
identifiers are disjoint, NULL is none of them, and the bounds are naturals.

It proves further, with crashes in any number and for any `Late` without
`"put"`,

* `NothingOrphaned`: `Spec => []NoOrphan`,
* `CompletedErased`: `Spec => []CompletedMeansErased`,
* `ObjectsOwned`: `Spec => []RowsOwnObjects`.

They rest on `IInv` and on `JInv`, which follows a key through its life: it is in
use until its intent is settled and `Retired` from then on, only retired keys
are found in associations and in rows of the outbox, a prepared delete lists the
objects its faces have now (`PlansExact`), and a flush that is about to remove a
row has erased its objects (`RowsErased`). For `CompletedErased`, `CInv` adds
that nobody has the objects of a delete that was executed. The assumption on
puts is needed: the object of a put that outlives its request may appear after
its row has left the outbox. boto3 is called with timeouts and the code counts
a put that timed out as failed; that such a put is not completed by the store
later is assumed of it, by the code and by the model.

`Originals_proofs` proves, for any numbers again, any `Late` without `"put"` and
`"rename"` and any `Bypass` without `"add"`,

* `PicturesMatched`: `Spec => []PicturesMatch`,
* `OriginalsKept`: `Spec => []OriginalKept`,
* `ReadsFind`: `Spec => []ReadsOwnOriginal`,
* `NothingStale`: `Spec => []NoStaleImage`, here with `Bypass = {}`,
* `ArchiveKept`: `Spec => KeepsArchive`, the refinement, with `Bypass = {}` too.

The invariant `OInv` of the first three says where the picture of an upload may
be: with no face before its registration is executed, afterwards with exactly
one, which is the one face of its subject that the intent did not record
(`OnlyNew`); and, for each point of a handler, what its variables tell of that
(`Knows`). Both assumptions are needed. A rename that commits late brings
another face into the subject, which `gateway_rename` shows, and so does a
registration behind the gateway's back; after a crash between `begin_upload` and
the put, such a face is even associated with an object that was never stored.
`RowsOwnObjects` and `NoOrphan` are what remains true without them.
`NothingStale` adds `AInv`: of each delete in flight, whoever waits for it,
either its plan is in the journal and names all it can reach (`Aimed`), or it is
`Spent`, because its faces are gone and identifiers do not come back; at most
one delete is not spent; and no face is deleted while an upload is in the
journal (`UploadsAlive`), so recovery never associates a face that is gone.

`ArchiveKept` maps every step of the gateway to a step in the life of keys. Its
base is `StagesOK`: a key that is held, claimed, condemned or fresh is only
that, so a step that moves a key from one table to another changes its stage and
no other key's. A lemma per method of the journal (`MapsDiscard`, `MapsHold`,
`MapsForget`, `MapsFinish`, `MapsClaim`) gives the step of the archive, a lemma
per kind of step (`RecoverMaps`, `AnswerMaps`, `FlushMaps`, `BackendMaps`, ...)
its guard, from `OInv` and `AInv`. One more invariant, `PutsNew`, says that a
put under way has not been executed: no object appears twice. `IInv`, `JInv`,
`OInv` and `AInv` were model-checked in the instance of `gateway_core` before
they were proved.

`Archive_proofs` proves of the abstract specification, for any faces and keys,

* `OriginalsAreKept`: a registered picture is stored, and its key held by its
  face or claimed,
* `OriginalsMatch`: a face holds its own picture, and no two faces one object.

With `ArchiveKept` both are facts about the gateway; `gateway_core` checks the
refinement on its instance.

`Routes_proofs` proves, for names and identifiers of any length,

* `PlansAreWhatIsAsked`: `Spec => []PlansWhatIsAsked`,
* `AnswersStayHonest`: `Spec => []AnswersAreHonest`,
* `StatusIsKept`: `Spec => []StatusKept`,
* `TypeCorrect`: `Spec => []TypeOK`,
* `WritesOnlyWait`: `Spec => []WritesWait`, if identifiers hold no separator
  (`PlainIds`).

`DecodedOnce` is the heart of the first: decoding once undoes encoding once,
also for names that look encoded; `SegmentArrives` adds that no client sends a
name URL libraries would remove or split. A lemma per operation (`Agreed`) then
compares what the gateway plans with what the backend does. The second needs
which intents are open at each stage of the request, the third
a lemma per client about its order of tests (`RaisedFaithfully`). `WritesOnlyWait`
compares two classifications of one request that the code writes apart:
`WritesSeen` shows that no write counts as `read_only`, `ReadsSeen` that every
read does; `Waiting` is then
inductive. `PlainIds` is needed for one path only: with a separator in the
identifier, `/faces/{id}/verify` is not the pattern of a verification and would
wait like a write. Identifiers are UUIDs the backend hands out; `routes` checks
`WritesWait` on an instance with `PlainIds`.

`RetryClient_proofs` proves, for any number of calls, subjects, retries and
image versions and any mix of clients,

* `ClientTypes`: `Spec => []TypeOK`,
* `WritesOnce`: `Spec => []AtMostOnce`,
* `TruthfulAnswers`: `Spec => []AnswersAreTrue`,
* `AnswersSettle`: `Spec => []NothingLeftBehind`,
* `ImageKept`: `Spec => []BufferedImage`,
* `AttemptsSpent`: `Spec => []RetriesExhausted`.

The inductive invariant adds what a call knows of its requests: one per
attempt, none from a later attempt (`SentInv`, `SentOnce`), the attempt within
what its client allows (`CallInv`), a reply only to a request the backend is
done with (`AnsweredInv`), and a reply that tells what happened to it
(`HappenedInv`, `RefusedInv`). For a call that is not repeated there is one
request, so what its answer says of that request it says of the call. The lemma
`NotRepeated` evaluates the rules of the SDKs for creations and registrations,
`Repeated` for everything else. The assumptions are `SdkAssumption`,
`RetryAssumption` and `NoneAssumption`.

`FacePages_proofs` proves, for any collection, page size and page limit,

* `PageTypes`: `Spec => []TypeOK`,
* `DeletesConfirmed`: `Spec => []ConfirmedGone`,
* `UploadsAdopted`: `Spec => []AdoptedFresh`,
* `ListsExact`: `Spec => []KnownExact`.

`ConfirmedGone` needs to know what a listing that is not finished has missed:
as long as it has shown no face of the delete, all that remain are on pages
still to come (`AheadInv`). A delete in between keeps that true, because the
faces it removes were ahead too and shift no other one behind the present page.
`SeenInv` says what the pages read so far contain, and `FreshInv` that the new
face is on no list made before the upload. The lemmas on positions use the
library's theorems on cardinalities and the least member of a set of numbers.

`SdkResults_proofs` proves, for documents with any numbers of faces and subjects,
embeddings of any length, and any keys and thresholds,

* `TypeCorrect`: `Spec => []TypeOK`,
* `SearchesRank`: `Spec => []SearchRanked`,
* `VerdictsOneToOne`: `Spec => []OneToOne`,
* `FeaturesDecode`: `Spec => []FeatureDecodes`,
* `ConfidencesKept`: `Spec => []ConfidenceKept`,
* `KeysOfServices`: `Spec => []KeyOfService`.

The inductive invariant `ResultInv` is plain: a client passed the checks of its
constructor (`CheckedClient`: all but Go keep their threshold in range), its call
those made before anything is sent (`CheckedCall`), and an answer is the result
of that call on the document received (`Answers`). The work is in what the
functions of `SdkDocuments` return. Induction over data is out of reach, so the
lemmas go round it. `FlattenSeq` is a fold; `FlattenCovers` shows that its places
correspond one to one to the places of its parts, by a least counterexample
(`Upwards`). A stable sort is a bijection of places (`DescendingCovers`), so the
matches of a search correspond one to one to the subjects that reach the
threshold (`Shows`), whether a client filters before joining or afterwards,
and so do those with one subject and one score, which is what
`SearchRanked` counts. A text is Base64 by position: each group of four digits
gives back its three bytes, and a word's byte stands where `FlattenFours` says.
For the same reason two definitions say by position what a recursion would say:
`AtLeast` joins one sequence per match, and `Digits` cuts off as many places as
there is padding.

The assumptions are `ScoreAssumption`, `ResultsAssumption`, `MissingAssumption`
(an absent field is not a list of subjects) and `DocumentsAssumption`: the
backend sends fields of the types `SdkDocuments` names, with scores between 0
and 1. No client checks those, so a document that breaks them is outside of what
the clients promise.

`Applications_proofs` proves, for any users, subjects, requests, refreshes,
deletions and bounds,

* `TypeCorrect`: `Spec => []TypeOK`,
* `DeletionsHold`: `Spec => []DeletedCannotVerify`,
* `OwnersVerify`: `Spec => []VerifiedIsOwner`,
* `ListsCurrent`: `Spec => []ShownIsCurrent`.

None of the last three is inductive, because each is about what somebody was
told earlier. `DeletionsTold` follows a deletion that no registration of the
subject overlaps: once it was performed the subject has no face, and after it
was confirmed nothing on its way gives it one (`Emptied`). `BarredFail` says the
same of a verification that began then: what it has found is not the subject.
`IdleFail` is its counterpart for a disabled account. `FetchSound` and
`TableSound` say of a refresh under way, and of the list it leaves, that each row
and count was so at one of the times the console remembers (`Remembered`), as
long as no newer refresh was started. `EmptyStep`, `DeletionsStep`, `FindsStep`
and `ListsKept` prove this for every kind of step, `HistoryStep` joins them. The
assumptions: accounts are bound to distinct subjects, requests and handlers have
distinct names, and the null value is no picture, request or subject.

Every safety invariant and every `[][A]_vars` property of a passing run is
proved, with the assumptions above. Model-checked only are the liveness
properties (ENABLED and fairness are outside the prover), and of course the four
statements the code does not keep, which runs refute.

## 5. Not modelled

Of the gateway: header filtering, multipart and base64 parsing and image
validation (they only decide accepted or refused), the two health routes, which
change nothing, bucket creation and the validation of settings. Services
are independent except for the outbox, whose batch mixes them; one service is
modelled. Pages of `face_ids` are one snapshot in `OssGateway`, justified by
`FacePages`; that an image read under a late delete may miss an untouched face
and answer 404 is not modelled. `DELETE /subjects` without a name, which no client
sends, is left out.

Of the SDKs: configuration, connections, the parsing of subjects and registered
faces, health checks and base URLs below a path (an `apiUrl` with a path prefix
makes the endpoint rules of the Java client miss); of a document, the fields no
result depends on (landmarks, plugins, the quality and distance of old
documents), malformed types, and the rounding of decimals to float32.

Of the web console: settings, locale, layout, the loading mask, and the table of
an earlier search that stays after a failed one (SearchView.vue:133). An older
refresh of the subjects that answers last is the exception `ShownIsCurrent`
states (SubjectsView.vue:114). Of the RuoYi example: compare, detect and the
check whether a face exists, which pass an answer on and write nothing. The
deployment has no program logic.

## 6. State of the work

Done: the gateway with its safety, refinement and liveness; the way of a request
to it; face listings by page; the calls of the SDKs and their results; the
applications; proofs of the safety properties of all of these. Left: `RetryClient`
composed with the gateway, where a repeated DELETE meets the gateway's recovery
of the first one.
