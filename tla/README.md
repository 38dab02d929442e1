# Verification of terraform-provider-s3tables

TLA+ models of the provider's two resources and of the Thrift library it
carries, TLC runs that check them on small instances, and proofs of what holds
for every instance.  Line numbers are those of
`src/internal/provider/lakeformation_permissions_resource.go` (LF) and
`src/internal/provider/s3_table_resource.go` (S3); file names without a path are
those of `src/patches/thrift/lib/go/thrift/`.

## 1. The system

The provider is a Go process that Terraform core starts for a run.  It keeps
nothing itself: core stores the state, AWS holds the truth.  `patches/thrift` is a
patched Apache Thrift, which the build puts in place of the released one.

| Component | State it works on | Operations | Interacts with |
|---|---|---|---|
| LF permission algebra (LF 121-170, 467-607, 903-924, 1098-1310) | sets of permissions, `ALL`, nil | convert, collapse, fill, refresh, validate, compare | pure |
| `applyResource` / `applyDiff` (LF 934-999, 1157-1210) | permissions held by one principal on one resource | list, revoke, revoke and regrant, grant, retry | AWS Lake Formation, other administrators, other callers |
| LF resource lifecycle (LF 373-767, 793-900, 1003-1095) | configuration, plan, state; one pair of attributes per catalog, database, table, wildcard | validate, plan, create, read, update, delete, import | Terraform core; calls `applyResource` block by block |
| S3 table lifecycle (S3 457-547, 664-687, 974-1029) | columns, partition fields, properties of one Iceberg table | create, read, delete, import | Terraform core; the Glue Iceberg catalog |
| S3 table update and wait (S3 552-785, 2080-2224) | loaded table, staged transaction, attempts | load, stage, commit, reload | the catalog, other writers |
| nested field IDs (S3 1197-1561, 2352-2404) | IDs of list, map and struct columns | resolve, fill, validate, hint | user (follows the messages), catalog (assigns its own) |
| properties and drift (S3 1852-1876, 2004-2060, 2218-2350) | declared, defaulted and engine-written properties | build, filter, compare | query engines, which write properties |
| types and literals (S3 1139-1195, 1563-1780, 1878-1969, 2406-2464) | none | parse, format | pure |
| metadata patch transport (S3 1040-1117) | none | rewrite one response body | catalog client, HTTP |
| Thrift server (`simple_server.go`, `server_socket.go`, `socket*.go`) | lock, wait group, stop channel, listener, two goroutines per connection | serve, accept, process requests, stop with and without a timeout | clients, any number of callers of `Stop` |
| Thrift client, protocols, transports (`client.go`, `binary_protocol.go`, `compact_protocol.go`, `framed_transport.go`, `header_*.go`, `multiplexed_protocol.go`) | sequence numbers, read and write buffers, the detected form of the other end | call, send, receive, time out; encode, decode, skip, frame, detect | the other end of one connection |
| other Thrift protocols and transports | buffers | JSON text, debugging, TLS, HTTP, zlib | |
| provider set-up (`provider.go`, `main.go`) | one AWS configuration | configure | both resources |
| docs, examples, tools | | documentation; release scripts | |

### What is hard, and what makes it correct

*Reconciling permissions.*  One block takes a list of several pages and up to
three further calls, none of them atomic together.  Each may fail, also after it
took effect; an attempt that meets a `ConcurrentModificationException` is repeated
from a new list; other administrators and other callers change the same
permissions; the process may be killed between two calls; and AWS shows
"everything" as `ALL` or as the list of all permissions.  Correct means: success
leaves exactly the plan in place, up to grant options that AWS refuses to revoke,
stopping anywhere loses only what was being regranted, nothing unplanned is granted, callers that agree do not undo one
another, every call ends.

*The permissions resource.*  A walk over the blocks stops at the first error and
leaves the state as it was; unset, empty and absent blocks mean different things
in the configuration but are filled, collapsed, refreshed and compared in
different functions.  Correct means: after a successful run everything declared
is held, a second run plans nothing, unmanaged blocks are never touched, a
successful delete leaves nothing.

*The table resource.*  An update is computed from the stored state, staged on a
freshly loaded table, committed optimistically, and verified by reloading from a
catalog that may lag.  Differences are computed by name (through Go maps, whose
order is random) and verified by position.  Correct means: success is real, no
column is dropped that the plan did not show, the table keeps a column, a landed
update is recognised, every run ends.

*IDs and properties of a table.*  The IDs of nested columns come from the user,
from `ModifyPlan` and from the catalog; a nested column cannot be updated, so a
numbering that shifts makes an update impossible, and the provider answers with a
message that tells the user which IDs to write.  Properties come from the user,
from S3 Tables and from engines, and are read back sorted, untyped and filtered.
Correct means: IDs stay unique, what a message says to write works, a run that
succeeded stays settled, a refusal has a reason.

*The Thrift server.*  `innerAccept` adds to a wait group that `Stop` is waiting
for in another goroutine; `Stop` may come before `Listen`, or while `Accept` is
between its checks and its wait; a client may idle for ever.  Correct means: when
`Stop` has returned nothing runs any more, no answer is lost without a timeout,
with one `Stop` always returns, and `Serve` returns after it.

*A Thrift connection.*  A call may be given up while its answer is half read, or
fail while its arguments are half written, and the connection is used again; each
end finds out from the first bytes which form the other one uses; ends of
different versions skip what they do not know by counting its bytes.  Correct
means: no call is given another call's answer, no handler sees a call that nobody
made, an undisturbed call succeeds, the two ends never wait for each other.

The list of hazards, each at its line and with the properties that would notice
it, is in `PROJECT.json`.

## 2. The modules and how they correspond to the code

| Module | Models |
|---|---|
| `LFPermissions` | the permission algebra as operators on sets |
| `LFApply` | `applyResource` / `applyDiff`, for any number of concurrent callers |
| `LFReconcile` | what `applyResource` promises, without saying how |
| `LFResource` | the life of one permissions resource |
| `S3Table` | create, update, delete of one table against a lagging catalog and other writers |
| `S3Promise` | what a table resource promises about its table, without saying how |
| `Selection` | the elements of a sequence at a set of positions (`Pick`), used by the S3 modules |
| `S3Schema` | columns as configured, planned, stored and read back: types, defaults, nested IDs |
| `S3Properties` | properties as declared, stored, read back and compared |
| `S3Lifecycle` | runs of apply one after another, with edits, messages followed, imports and engines that write |
| `ThriftServer`, `ThriftDrain` | `TSimpleServer`; what its shutdown promises |
| `ThriftBytes` | bytes, integers, varints, strings and frames, without recursion |
| `ThriftTransport` | the transports on top of them: raw socket, `TFramedTransport`, `THeaderTransport` |
| `ThriftBinary`, `ThriftCompact` | the two protocols, byte by byte |
| `ThriftWire` | messages and values in the dialect of a connection; `Skip` |
| `ThriftRPC` | `TStandardClient` against `processRequests` over one connection |
| `LFApply_proofs`, `LFResource_proofs`, `S3Table_proofs`, `S3Schema_proofs`, `S3Lifecycle_proofs`, `ThriftServer_proofs`, `ThriftCodec_proofs` | theorems |
| `Selection_proofs` | lemmas about sequences that the proofs about the table share |
| `MCLFApplyTwo`, `MCLFResource`, `MCS3Table`, `MCS3Lifecycle`, `MCThriftRPC` | constants for TLC |

Definitions named `Name_Suffix` are faulty variants of `Name`, kept to show
which property notices the fault; nothing uses them otherwise.

**LFPermissions.**  A `*Permissions` is `Nil` or the set of its true flags; an
API list is a set, because the code never observes order or repetition.  The
three sets of valid permissions (catalog, database, table) are one parameter.

**LFApply.**  `awsP`, `awsG` are what AWS holds for the principal (with and
without grant option).  Per caller, `pc` is the place in `applyResource`:
`list` (LF 987), `allRevoke` and `allGrant` (the `ALL` path, LF 941-945),
`revoke` (LF 953-959), `keep` (the separate revoke of permissions that stay but
lose their grant option, LF 964-971), `grant` (LF 973-978), `backoff`
(LF 992-998).  `curP`, `curG`, `attempt` are the variables of that name and
`regrant` is what `keepRevokeG` adds to `grantP`.  One action is one call with
its outcome and everything the code does up to the next call.  A list takes one
step per page (`ListPage`, and `List` for the last one): `unlisted` are the
permissions on pages still to come, and `Pages` the sets of permissions that may
make up a page before the last, so that the service is free in how it cuts the
list.  `base`, `dirty`, `tainted` are history variables used by properties only.

The service is external and modelled from how the code uses it and from its
comments: a grant adds, a revoke removes; a failed call may or may not have taken
effect; a revoke of something not held may be answered "No permissions revoked"
after removing the rest or nothing; a revoke that touches a `Pinned` grant option
(`SUPER_USER`, LF 934-940) is refused whole; removing a permission removes its
grant option; a grant option is listed on the page of its permission.

**LFReconcile.**  A caller looks, changes the pair without adding anything it
does not want, and finishes; with a fresh view it may report success only when
its wish is in place.  `LFApply!Promise` is the refinement mapping: callers in
any phase but an ended one are `running`, a crashed one counts as failed, and the
view is the history variable `dirty`.

**LFResource.**  A model maps each block to its pair or to `Absent`.  `Start*`
is `terraform apply` up to the provider's call: Read (`Refreshed`), proposal
(`Proposed`: Terraform core keeps prior values of unset computed attributes),
`ModifyPlan` (`Filled`).  `Skip`, `Apply`, `Refused`, `Fail` are the walk over the
blocks in the code's order; `Targets` says which blocks it acts on (LF 793-900 for
create and delete, LF 1003-1095 for update); `Finish` writes the state.  One
`applyResource` is one step, with the outcomes that `LFApply` shows it to have.
`Pinned` are the permissions whose grant option AWS refuses to revoke.  When one of
them goes with its permission, or everything is revoked on the `ALL` path, the
first revoke fails and with it the run (`Blocked`, `Refused`).  When one of them is
to be taken from a permission that stays, that call is skipped as a whole
(LF 961-970), the options in it are left over (`LeftOver`), and `applyResource`
succeeds.  Otherwise `Apply` reaches the plan.  A failure (`Fail`) stops with any
part of what was held or planned, and with every pinned grant option.

**S3Table.**  The catalog keeps all versions of the table in `log`; a load
returns any version that is not older than the last one the provider saw.  `pc`
follows `Create`, `Update` (`update`: load and stage, S3 574-606; `commit`,
S3 625-636; `verify`: `refreshUntilConsistent`, S3 718-769) and `Delete`.  The
guard on a plan without fields, the differences from the *state* applied to the
*loaded* table, additions in any order (Go map), positional `fieldsEqual`,
order-free `partitionsMatch` and the attempt counter are those of the code.
External and assumed: iceberg-go refuses to delete or update a column that the
table does not have, to add one it has, and to update by an incompatible
definition (`CanBecome`); the catalog takes a commit only when nobody has changed
the table since it was loaded; Terraform core reports a state that differs from
the plan as inconsistent (`outcome = "inconsistent"`).  Configurations have
distinct column and partition names: a table with two of one name is refused by
Iceberg.  `shown` is a history variable: the version the plan was made from.

**S3Promise.**  A run has a `job`, to take the table from the resource as Terraform
stores it to the resource as planned.  It changes the table at most once, in one
step, and changes the table as it is at that step (`Allowed`): a create makes the
planned table where there is none, a delete drops one, an update keeps every column
that both resources name, with its ID and in its order, drops what only the old one
names, puts what only the new one names behind under new IDs, and touches no
partition field on which the two agree.  It reports success only when the last
version it looked at is as planned.  `S3Table!Promise` is the refinement mapping:
`known` is `seen`, the job is the state and the plan while `pc` is not `idle`, a
run has had its try once it is in `verify`, and a result that Terraform core calls
inconsistent counts as done, for the provider returned no error.

**Selection.**  Several loops of the code keep some elements of a list in their
order.  `SelectSeq` says that by recursion, which nothing can be proved about;
`Pick(s, I)` says it directly: the k-th element is the one at the k-th position
of `I`.

**S3Schema, S3Properties, S3Lifecycle.**  A field is a record of a type, a nested
block with its IDs, and defaults; a value of a property is its text and what the
text means as JSON.  `ResolveNestedIDs`, `FillMissingNestedIDs` and
`NestedIDsUnique` are the functions of that name.  Nested IDs are known by their
places, column and part (`Places`); a place that the code's loops look at is a slot
(`Slots`), and the counters of the code become the number of places before one
(`Number`) and "the first free numbers" (`FirstFree`).  `StoredNumber` and `ReadDefault` keep the
conversions of a default number: to 32 bits, float32 or float64 on the way in and to
float64 on the way out.  `Rounded` says of a float only which integers it can tell
apart.  In `S3Lifecycle` one step is one run (validate, plan, create, update or
destroy, with what it tells the user in `told`), one edit, one message followed
(`Follow`), one engine's write or one import; `settled`, `imported`, `cured` and
`hinted` are history.  Runs are atomic here because `S3Table` has the
interleavings.  External: how the catalog numbers a new table or column
(`Numbered`, `AddedColumns`), what it refuses to store (`Creatable`), which types it
widens (`CanWiden`), how Terraform core proposes prior values (`Proposed`).

**ThriftServer.**  `serve` is where `Serve` is, `worker[c]` where
`processRequests` is for a connection, `watcher[c]` the goroutine of
`simple_server.go` 221-231, `stop[s]` where a caller of `Stop` is; `mu`, `wg`,
`closed`, `cut` (`stopChan` is closed), `interrupted` and `listening` are the
fields they share.  One action is one step between two points where another
goroutine can be seen: a lock, a channel, an atomic, a read or a write of the
network.  The socket's own lock makes `AcceptReads`, `SetInterrupted` and
`CloseListener` a step each.  Clients connect, send one request at a time and
leave as they like.  A connection accepted while `Stop` has the lock is dropped
unserved and stays open, and a `Listen` after `Interrupt` leaves a listener open:
so does the code.

**ThriftBytes, ThriftTransport, ThriftBinary, ThriftCompact, ThriftWire,
ThriftRPC.**  Bytes are numbers.  A decoder takes a sequence of bytes and returns `got` with a value
and the rest, `need` when bytes are missing, or `bad`; a transport is a record of
what is on its way (`raw`), read into a frame (`cur`), left from a frame that did
not arrive whole (`part`) and written (`wbuf`), with the form and the protocol it
has detected (`ctype`, `proto`).  `ReadFrame`, `ParseHeaders`, `Flush`, `Skip` and
the `Read*`/`Write*` operators are the functions of that name.  One action of
`ThriftRPC` is a call up to its flush, a call whose arguments fail to write, a
turn of the server's loop, the return of a call, or a timeout after any number of
bytes.  The generated code and the handler are external: a method that returns its
argument and a oneway one.

## 3. The runs

| Run | Shows | Bounds, and why they suffice |
|---|---|---|
| `apply_one` | `TypeOK`, `ConvergedOnSuccess`, `KeptUnlessRegranted`, `GrantsOnlyPlanned`, `Termination`, and that `LFApply` implements `LFReconcile` (`Reconciles`) | three permissions: one to keep, one to add, one to remove, so the diff, the regrant and `ALL` all occur; one retry (two attempts) exercises the repeated diff; one outside change at any point, also between two pages; one pinned permission; a list of one page or two |
| `apply_two` | `AgreeingCallersConverge` | two callers, two interchangeable permissions, a retry each; every interleaving of pages, revokes and grants |
| `resource` | `TypeOK`, `DeclaredIsHeld`, `CreatedAsPlanned`, `NoPerpetualDiff`, `UnmanagedUntouched`, `DeletedCompletely` | one catalog, one database with a table or a wildcard; models with unset, empty, partial, `ALL` and grantable-only attributes; one edit, one drift, one failed apply, so that every run can follow a failed or drifted one; one of the two permissions is pinned, so that a revoke is refused or skipped |
| `table` | `TypeOK`, `SuccessIsReal`, `DropsOnlyPlanned`, `LandedIsRecognised`, `ProviderReturns`, and that `S3Table` implements `S3Promise` (`KeepsPromise`) | ten configurations that extend, shrink, widen, reorder, repartition and empty one another; one edit, one foreign change, one lost call or crash, two retries and two stale loads, so that the last permitted stale load and the one too many are both reached |
| `lifecycle` | `TypeOK` (IDs unique and below the counter), `SuccessMeansStored`, `SettledStaysSettled`, `ImportConverges`, `RefusalIsCurable`, `HintIsValid`, `RefusalHasReason`, `FaithfulConfigApplies` | 20 configurations (list, map and struct columns with no, some, clashing and all IDs pinned; both spellings of a decimal; defaults that are cut or rounded; declared, overridden, ignored and JSON properties; three versions), three columns that can be appended; two edits, so that a table is created, extended and extended again, and one engine write or import; messages may be followed without bound. The widths 32 and 64 of integers are scaled to 4 and 7, and those of float32 and float64, 24 and 53, to 4 and 5, which keeps every conversion and what it can lose |
| `server` | `TypeOK`, `StopMeansStopped`, `AnsweredUnlessCut`, `Drains`, `StopReturns`, `ServeReturns`, `NobodyWaitsForAnother` | two connections, so that one can be served, queued or accepted while another is; one caller of `Stop` (a second one only waits for the lock; the theorems cover any number) |
| `rpc` | `TypeOK`, `NeverWrongAnswer`, `HandledAsSent`, `CleanCallsSucceed`, `NeverStuck` | 32 pairs of ends: raw or framed, binary, strict, unversioned or compact, multiplexed or not, against a plain or a header server, and header against header with and without zlib and with each kind of stale bytes in the recycled buffer; four clients: two calls with every kind of call and value, two between ends of different versions, four with two timeouts at any byte, four with two failed sends. Two disturbed calls followed by two others let what the first left behind meet what the second did |

Deadlock is not checked in any of them: a bounded model stops when its edits,
changes, calls and faults are used up and all callers have ended.

The remaining five runs show, as counterexamples, where the code does not do
what the repository's README, or in `emptied` its error message, says:

| Run | The repository says | The code does |
|---|---|---|
| `removed_block` | removing a block revokes its permissions (README.md:632) | an update walks over the plan's blocks only (LF 1041); the permissions stay |
| `omitted_grantable` | omitted `grantable_permissions` are untouched (README.md:613) | they are planned as empty (LF 597) and grant options are revoked |
| `added_columns` | columns can be added without recreating (README.md:67) | added columns go to the end, in random order, and are verified by position (S3 760): an update that inserts a column lands, fails, and fails again on every later run |
| `added_partition` | partition fields can be added without recreating (README.md:67) | the match ignores order, the stored list does not (S3 655): Terraform reports an inconsistent result and plans the change again |
| `emptied` | a table must keep at least one column (S3 585) | the guard looks at the plan alone: an update of (a, b) to (a) lands and the run is killed, the configuration becomes (b), the refresh returns the old (a, b), so that the plan removes a, and the update stages that on the fresh table (a) and commits a table without columns; nobody else writes |

### What the properties leave out, because the code does it

* `lifecycle`: `format_version` is documented to force a new resource
  (README.md:252) but has no such plan modifier, and an update of it ends
  inconsistent; `decimal(18,4)` without a space, a `json` property and unsorted
  properties read back in another form, so the create is reported as inconsistent
  and replaced by the next run.  `SuccessMeansStored` speaks of runs that report
  success.  When only the value of a map is pinned the hint overwrites the pin,
  and when only the key is it prints `value_id = 0`: `HintIsValid` leaves half
  pinned maps out.  To declare a property and stop ignoring it in one edit is
  refused for ever: `FaithfulConfigApplies` leaves out properties the state still
  ignores, and tainted resources, which are replaced.  Columns with a default number always count as changed, and whether the
  wait recognises them depends on the precision Terraform encoded, so both are
  allowed; `SuccessMeansStored` compares such numbers as far as a float64 tells, and
  `ImportConverges` and `FaithfulConfigApplies` leave them out.  `format-version` is
  never read back, so that a configuration that declares it as a property is
  refused: `RefusalHasReason` counts it as not there.  A nested column that the
  configuration turns into a plain one is refused too, and no ID cures that:
  `RefusalIsCurable` asks that the IDs are all that differs.
* `table`: partition fields are verified without their order.  If a first update
  commits and then fails to verify, the next one starts from the old state, stages
  the same change again in another order (the order of a Go map), and may verify
  against an old load: it reports success, and the table's partition fields have
  another order than the configuration's.  And if a delete dropped the table but
  was answered with an error, loads that lag go on showing it, and an update whose
  plan is what an old version shows is reported as a success although there is no
  table.  `SuccessIsReal` allows both; the proof needed them.
* `resource`: a `permissions {}` block added where the state has none compares equal
  to it (LF 922), so that no call is made and what is held stays, although
  README.md:602 says that an empty block revokes all permissions.  `DeclaredIsHeld` is
  about what must be held and says nothing of an empty block.
* `resource`: a revoke that is skipped because of a pinned grant option leaves the
  others of the same call too.  They are no longer in the state, so that no later
  run takes them away: `CreatedAsPlanned` allows them and `NoPerpetualDiff` holds.
* `table`: an update knows columns by their names.  `DropsOnlyPlanned` follows a
  column by its ID and finds that the one dropped is the one that the plan was made
  from, and never one that this provider has added since; but when another writer
  has dropped it and put another column under its name, that one is dropped.
* `table`: `LandedIsRecognised` is about updates that no other writer came before
  since the table was loaded.
* `rpc`: in the dialect without versions a failed send followed by another call
  makes the server run the failed call's method with empty arguments
  (`HandledAsSent` leaves it out).  After a timeout the late answer's body stays
  unread and later calls fail - but none of those in the run is answered wrongly.  A oneway call of
  an unknown method leaves an exception unread, which fails the next call (`Clean`
  leaves the calls after it out).
* `server`: `StopReturns` needs a timeout; without one `Stop` waits for clients
  that idle, as its comment says.

### Fairness

`LFApply` assumes `WF_vars(Step(p))` for each caller and `S3Table` assumes
`WF_vars(Provider)`: a Go call made with a context returns with an answer or an
error, and a pause ends.  Nothing is assumed of which answer it is, so
termination comes from the attempt counters alone.  Users, administrators, other
writers and crashes are not fair.  `ThriftServer` assumes that goroutines run on
(weak fairness of each one's steps), that an `Accept` on a closed listener fails,
that handlers end, and that a connection that waits in the queue again and again
while `Accept` waits is taken in the end (`SF_vars(AcceptTakes(c))`: the queue is
first in, first out).  Nothing is assumed of clients, and nobody has to call
`Stop`.  `LFResource`, `S3Lifecycle` and `ThriftRPC` have no liveness property;
that neither end of a connection waits for the other is the invariant
`NeverStuck`.

## 4. The proofs

| Module | Theorems | For every |
|---|---|---|
| `LFApply_proofs` | `TypeCorrect`, `SuccessConverges` (`ConvergedOnSuccess`), `NothingUnplanned` (`GrantsOnlyPlanned`), `NothingLost` (`KeptUnlessRegranted`), `Implements` (`Reconciles`), `Invariance`, `Agreement` (`AgreeingCallersConverge`), `EveryStepCounts` | set of permissions, set of callers, retry limit, number of outside changes, way to cut a list into pages |
| `LFResource_proofs` | `TypeCorrect`, `Declared` (`DeclaredIsHeld`), `Created` (`CreatedAsPlanned`), `NothingToChange` (`NoPerpetualDiff`), `Untouched` (`UnmanagedUntouched`), `Deleted` (`DeletedCompletely`) | set of permissions and of pinned ones, order of blocks, set of configurations, number of edits, drifts and failures |
| `S3Table_proofs` | `TypeCorrect`, `SuccessReal` (`SuccessIsReal`), `DropsPlannedOnly` (`DropsOnlyPlanned`), `LandedRecognised` (`LandedIsRecognised`), `Implements` (`KeepsPromise`), `EveryStepCounts` | set of configurations, type changes the catalog takes, retry limit, number of stale loads, edits, faults and foreign changes |
| `S3Schema_proofs` | `CompletedIsValid` | list of fields, of any length and with any number of sub-fields and pinned IDs |
| `S3Lifecycle_proofs` | `Invariant`, `TypeCorrect`, `SuccessStored` (`SuccessMeansStored`), `SettledStays` (`SettledStaysSettled`), `ImportEndsWell` (`ImportConverges`), `FaithfulApplies` (`FaithfulConfigApplies`), `RefusalCured` (`RefusalIsCurable`), `HintValid` (`HintIsValid`), `RefusalExplained` (`RefusalHasReason`) | set of configurations, of columns to append and of properties to write, names of properties, widths of integers and floats, number of edits and writes |
| `ThriftServer_proofs` | `TypeCorrect`, `Stopped` (`StopMeansStopped`), `NoAnswerLost` (`AnsweredUnlessCut`), `Implements` (`Drains`), `StopNotHeldUp`, `GoroutinesEnd` | finite set of connections, set of callers of `Stop` |
| `ThriftCodec_proofs` | `VarintReadBack`, `VarintCut`, `ZigzagBack`, `FrameReadBack`, `FrameCut`; `BinaryHead`, `BinaryOldHead`, `BinaryField`, `BinaryList`, `BinaryMap`, `BinaryScalar`; `CompactHead`, `CompactField`, `CompactList`, `CompactMap`, `CompactScalar`; `ProtocolsTold` | value that fits its width, limit on messages and frames, and whatever bytes come after |

*Assumptions* (all evaluated by TLC in the runs): `ALL` is not one of the flags
and there is at least one flag, `Nil` is not a set of permissions, the bounds are
natural numbers, pinned permissions are permissions (`FlagAssumption`,
`NilAssumption`, `RetriesAssumption`, and `PinnedAssumption` in both modules); the order of blocks is
finite, `Absent` is neither a model nor a pair, users write models, and AWS never
holds a grant option without its permission (`OrderAssumption`,
`AbsentAssumption`, `WrittenAssumption`, `HoldingsAssumption`); there are finitely
many connections, and the markers for a free lock and a failed accept are not
among the callers and connections (`ServerAssumption`); the limits on messages and
frames are positive 32-bit numbers (`LimitsAssumption`).  Configurations of a table
are lists of records of the right shape in which no two columns (or partition
fields) have one name (`ModelAssumption`, `ConfigsAssumption`), property names are
sorted without repetition, and include those that configurations mention
(`OrderAssumption`), an unset ID is not a number (`NullAssumption`), and the widths of numbers are positive,
an int narrower than a long and a float32 than a float64 (`WidthAssumption`).

*`LFApply_proofs`.*  `ConvergedOnSuccess` speaks only of callers that have
returned.  `IndInv` adds, for every phase, what is held while nobody else has
interfered: in `list` the pages gathered so far are what is held of them; in
`revoke` exactly what was listed; in `keep` the listed permissions that are
planned; in `grant` either those without the ones to regrant, which are then in
`regrant`, or all of them with a pinned grant option in the way; in `allGrant`
nothing.  `ControlInv` adds what holds even when others interfere: outside the
`ALL` path the listed and planned sets are sets of flags.  `PlanFacts` shows what
validation gives about a plan, `ListFacts` that a collapsed list stands for what
is held, `RevokeEffect` and `GrantEffect` what the calls do; there is one lemma
per action, and `NextIndInv` combines them.

*`NothingLost`.*  A caller that began with a diff stays with diffs in all its
attempts: while nobody else interferes, what is held is always within what was
held at first or within the plan, neither of which is everything, so that no later
list is shown as `ALL`; and no grant option appears that was neither there nor
planned, so that what a later attempt regrants was at risk from the start.

*`Implements`.*  Under the refinement mapping every step of a caller is
that caller's own step of `LFReconcile` and changes nobody else's view but to make
it stale; `IndInv` gives what the abstract step asks for when a caller succeeds
with a fresh view.

*`Agreement`.*  Callers that share a plan, with nobody else around, begin with
every list showing what is held (`Untouched`).  The first revoke that has an effect
takes away all that is held outside the plan, and nobody ever adds to that
(`Started`).  The grant options to take away then either are gone, or are in the
list of every caller that will revoke them, no less and no more (`Diffs`), or
include a pinned one, so that every caller that would revoke them is refused
(`Sees`).  And of every planned permission that is not held there is a caller that
is going to grant it or has not succeeded (`Owed`): a caller never revokes what it
does not grant again itself.  When all have succeeded nothing is owed.

*`LFResource_proofs`.*  The inductive invariant says what plan and state are in
each kind of run (`WalkInv`), that a block without permissions has no grant
options and is not a nested one (`ModelInv`, which filling and refreshing
establish), what the walk has reached on every block it has passed and what still
holds of the blocks before it (`ReachedInv`), and that after a success the state
is what the configuration proposes and is held (`AppliedInv`).  `RefreshFacts` is
the lemma about the algebra: a refreshed attribute is held, and is the declared
one if that was held.

*`ThriftServer_proofs`.*  `wg` is the number of workers and watchers that run;
whoever is inside `Stop` has the lock and `closed` is set; when `closed` is set
and the lock is free, `wg` is zero; each connection goes through its states once.
`Add` and `Wait` race only where the lock keeps them apart, so a session never
begins once `closed` is set - which is the refinement of `ThriftDrain`.

*What liveness rests on.*  The prover does not do fairness; what a fair schedule
needs besides it is proved.  `EveryStepCounts` (twice) gives a measure of how far a
caller, or a run, is from its return: the attempts left, then the phase, then the
permissions left to list.  Every step of its own makes it smaller and nobody else's
makes it larger, so that nothing but a call that never returns keeps it from ending.
`GoroutinesEnd` says the same of the workers and watchers of a closed server.  One
of those can be kept waiting by a client, and `StopNotHeldUp` rules that out once the
timeout has passed: a worker that reads has lost its connection or has a watcher
that will close it.  That takes two facts about watchers (`WatchInv`) besides the
invariant of the module.

*`ThriftCodec_proofs`.*  Each theorem says that what one end writes the other
reads back, with whatever follows it untouched, so that reads can be put one behind
another in the order of the writes; or that a writing cut anywhere is answered
`need`, and is neither taken for something shorter nor refused.  A varint is shown
digit by digit: all but the last byte of a number have the high bit, so the
position of the first without it is the length.  Frames and strings follow from the
slices of a concatenation, heads and fields of the two protocols from their parts.
`ProtocolsTold`: a strict binary message, a compact one and the size of a frame are
each taken for what they are by their first two bytes, which the detection of the
header transport relies on.

*`S3Table_proofs`.*  The invariant has five parts.  `Typed`: every version in
`log` has distinct names and IDs below its counter.  `Running`: a run goes by the
configuration it started with.  `Seen`: of the versions the provider itself made it
has seen all but the last.  `Landing` says where an update stands: its staged
version is related to the one it was staged from by `Stages` (it keeps every column
that the plan did not remove, with its ID, adds only names that one has not, and is as
planned if that one was or if the plan extends it), and as long as nobody else writes, either nothing has landed or
exactly one version has, staged now or by an earlier run that did not learn of it;
in the latter case every failed comparison was a stale load.  `SuccessIsReal` itself
is the last part.  `Lineage`, an invariant on top of these, follows columns by their
IDs: each one of a version was in a given earlier version or came in with one between
(`Inherits`), what this provider brings in has a name that the table did not have
(`NewNames`), and at most one of its versions is later than the one that a plan is
made from (`OwnUpTo`).  So what is dropped under a removed name is the column that the
plan was made from, or another writer's.  The lemmas `StagesColumns`, `StagesParts` and `StagedStages`
establish `Stages` from the selection of columns; the action properties follow from
`Stages` at the commit.

*`Implements` of `S3Table_proofs`.*  A run is a job of `S3Promise` from its start to
its return, and the step that changes the table is the commit (or the call that
creates or drops it), wherever its answer gets lost.  `Stages` says more than the
safety properties need so that this step is an allowed change: what is staged was
computed from a loaded version, the commit lands only on that same version, and so
it is a change of the table as it is.  `ColumnsAltered` and `PartsRepartitioned`
turn the code's three passes over the differences (delete, update, add in any
order) into the abstract relation; `verify` is the only phase in which the try is
behind and the run goes on.  There is one lemma per action.

*`S3Schema_proofs`.*  `NumberFacts` shows that counting places gives them distinct
numbers up to their number, and `FreshNumbers` that the free numbers are distinct
and free; what `resolveNestedIDs` and `fillMissingNestedIDs` number is then distinct
from everything they must avoid, and nothing but IDs is changed (`Alike`,
`KeepsPins`).

*`S3Lifecycle_proofs`.*  The invariant says what each report and each history
variable promises about a configuration and a table that both change under them.
`Success`: after a success the table records the configuration (`Records`: the same
but for IDs, every pin kept, the declared properties what is read back, the
version), and so it does as long as the run is settled; the state then ignores and
tracks the same properties.  `Messages`: what was told is the state's IDs, or the
completed configuration, and a configuration that followed it has the table's nested
columns (`SameNested`), or is valid.  `Typed` carries the uniqueness of the table's
IDs, for which `IDsKept`, `IDsJoined` and `AddedFacts` show that kept columns keep
their IDs and added ones are numbered above the counter.  There is one lemma per
action; each property then needs how a run can end (`Ends`).  `SuccessMeansStored`
alone is not inductive: engines may write what the configuration ignores, and it
takes `Records`, by which a declared property is one that is read back and so not
ignored, to know that such a write touches nothing declared.

The proofs corrected the model's properties where the instance was too small to: the
two exceptions of `SuccessIsReal`, default numbers in `ImportConverges`, the format
version in `RefusalHasReason` and kinds of columns in `RefusalIsCurable`.

*Only model-checked:* the five invariants of `ThriftRPC` and liveness.  A whole
message is skipped and read by recursive operators, in whose presence the prover
has no SMT backend, and what they compute for every message is an induction over
data.  Nor do the invariants hold for every value of the constants: after a timeout
the rest of an answer is read as if it were a message, and a payload can be chosen
that looks like one; the run fixes the values that are sent.  What the theorems about the
codecs cover is the parts of which messages are made.  `Termination`,
`ProviderReturns`, `StopReturns`, `ServeReturns` and `NobodyWaitsForAnother` need
fairness and `ENABLED`, which are outside the prover.

## 5. What is not modelled

* Import of a permissions resource, replacement when an identifying attribute
  changes, region resolution and the cross-account check: straight-line code whose
  result is an ordinary state or an error.
* Void transforms, which arise only for imported tables of format version 1, and
  partition transforms beyond their name; fractions of default numbers; the JSON
  text that the metadata transport rewrites (what is left of the metadata is
  modelled) and bodies of another shape, which pass unchanged.
* Thrift: the default processor of a multiplexed one, clients that send `ONEWAY`
  (generated Go code sends `CALL`; the server would take both), write headers of a response, a context that
  ends while a call is being sent, the `Flags` of a header, zlib itself (a
  marker stands for it), 64-bit integers beyond 32 bits, the text of an exception.
  The depth limit of `Skip` is in the model and never reached.  JSON, debugging,
  HTTP, TLS, zlib and buffered transports: formatting or one-to-one delegation,
  with no state that outlives a call.
* Error texts and logging; provider set-up, documentation and tools.

## 6. What is left to do

* `LFResource` with two databases, and the permissions of several principals.
* The connection of `ThriftRPC` behind the server of `ThriftServer`, so that a cut
  by `Stop` meets a half-read request.
* The decoders of whole messages as recursive functions, so that `Skip` and nested
  values are covered by the theorems too.
* An abstract specification of a call over a connection that `ThriftRPC`
  implements, as `ThriftDrain` is for the server.
