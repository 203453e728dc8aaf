# A TLA+ model of Henge

Henge is a server for versioned configuration: named groups of properties, sets
of versions of such groups, files, and a mapping from deployment scopes
(environment, region, application, ...) to version sets. This directory holds
TLA+ modules of its core, TLC configurations that check them on small
instances, and proofs that TLAPS checks. `PROJECT.json` lists the runs, the
mutants that show that each property can fail, the source lines of each
definition, the hazards of the code, and the places where code and
documentation disagree.

Paths below leave out `src/main/java/com/kenzan/henge/`.

## 1. Inventory of the system

The server is a Spring Boot application. Request threads of the container call
REST resources (`resource/v1/*RS`), which call business delegates
(`service/impl/*BDImpl`), which call repositories. The profile chooses the
repositories: flat files on a local disk, flat files on S3, or Cassandra.
Nothing above the storage locks anything, so everything a request does between
two accesses to shared state can interleave with other requests. The shared
state is: the storage, one cache per delegate, and one map of mappings.

| component | state | operations | what is hard |
|---|---|---|---|
| `BaseFlatFileRepository` with `FileNamingService` | one file per version, `<name>_-_<version>` in the directory of its class | create, update, read, read version, versions, delete, delete version | each operation is several storage calls; listings go by name prefix |
| `LocalFileStorageService`, `S3FileStorageService` | files, objects | write (create-new, overwrite, locked), read, exists, list by prefix, delete | local: create and fill are two steps; S3: check-then-put, paged listings, lost answers |
| `PropertyGroupBDImpl`, `VersionSetBDImpl` | a cache keyed by name and by name + version | the same, with cache fill and eviction | update is read-compare-write; cache and storage change in separate steps |
| `VersionSetMapping`, `VersionSetMappingBDImpl`, `VersionSetMappingFileRepository` | a concurrent map, and a file it is saved in whole | setMapping, deleteMapping, findMatch, load at start | memory changes while it is searched, and before the file; saves can be reordered; crash while saving; keys as JSON text in a table |
| `ScopeUtils`, `ScopePrecedenceConfiguration` | configuration | search for the most specific mapping or property value | order of entries, order of a hash map |
| `FileVersionFlatFileRepository`, `FileBDImpl` | two files per version (metadata, data), a cache | as above, with rollback | two writes that should be one |
| `CurrentFileVersionFlatFileRepository`, `CurrentFileVersionCassandraRepositoryImpl` | one file, or a row for each name: name to current version | set, get | unlocked read-modify-write, in place; two statements |
| `PropertyGroupFlatFileRepository.deleteValidation`, `VersionSetValidator` | (the version sets' files) | check references before deleting, and before creating | check-then-act on two directories |
| `SearchBDImpl` | none | version set to property values | dangling references |
| `ConvenienceRS` batch insert | none | phases of creates and mappings, each a parallel stream | no rollback; tasks that go on after the answer |
| `SemanticVersionComparator` | none | order of versions | 32-bit parts, leading zeros |
| Cassandra repositories | tables | the same interface | upserts, text order, deletions of mappings not saved |

What makes each correct:

* the repository: a version is published whole and once, never changes, and
  disappears only when it is deleted; the latest version is the highest; what is
  acknowledged is stored; a delete removes its own name and all of it;
* the delegates: the cache holds what is stored; a deleted entity is not served,
  or at least not for ever; an update raises the version;
* the mapping: a find answers with the most specific mapping that applies; what
  is acknowledged survives a restart; the file can be loaded; the lock is given
  back;
* the search: it means what its configuration says;
* references: what is stored refers to what is stored, or was stored and has been
  deleted; deleting a version of a group spares what a version set refers to; a
  batch that is acknowledged is stored whole;
* current versions: one that is set stays until the next is set, and is a version
  that was stored.

Not part of the core and left out: the Eureka server, the demo client, Docker,
WAR and Packer packaging, the load tests, the Swagger user interface, and the
configuration of Jersey, security and metrics.

## 2. Modules

| module | what it is |
|---|---|
| `VersionedStore` | abstract: artifacts that are published once, immutable, and retracted |
| `FlatFileRepository` | `BaseFlatFileRepository` on either storage, one step per storage call |
| `FlatFileHistory` | the same with history variables, for what a call may answer given what happened while it ran |
| `FlatFileRepositoryProofs`, `FlatFileHistoryProofs` | theorems about the two |
| `EntityService` | the delegates and their cache; EXTENDS `FlatFileRepository`, whose steps are the repository calls |
| `EntityServiceProofs` | theorems about it |
| `ScopeMatch` | the search for the mapping of a set of scopes and for the value of a property, as operators, and what they should find |
| `MappingService` | the mapping in memory, its file or table, the lock, crashes; EXTENDS `ScopeMatch` |
| `MappingHistory` | the same with what clients know to be saved |
| `MappingSearchHistory` | the same with what was mapped while a search ran |
| `MappingServiceProofs` | theorems about `ScopeMatch`, `MappingService` and `MappingHistory` |
| `FileVersionRepository` | `FileVersionFlatFileRepository` on either storage: two files per version, rollback |
| `FileVersionHistory` | the same with history variables: what a call found and what disturbed it |
| `FileVersionRepositoryProofs` | theorems about the two |
| `CurrentVersion` | the current versions of files, on all three storages |
| `CurrentVersionProofs` | theorems about it |
| `ReferenceIntegrity` | version sets, the property groups they refer to and the mapping: validations, deletes, batches, searches |
| `ReferenceIntegrityProofs` | theorems about it |
| `SemanticVersion` | versions: the order of the comparator, and that of their text |
| `CassandraRepository` | `BaseCassandraRepository`, one step per statement; EXTENDS `SemanticVersion` |
| `CassandraRepositoryProofs` | theorems about the two |
| `MC*` | instances for TLC: constants and symmetry |

### FlatFileRepository

`files` is the directory of one class of entities. A file is absent, complete
(its content), or created and not yet filled; then it holds the thread that is
writing it. `pc[t]` names the next storage call of thread `t`, and `listed`,
`latest`, `found` are the local variables that live across storage calls. The
correspondence of calls:

| pc | storage call |
|---|---|
| `exists` | `existsBeginningWith` in create |
| `list`, `listAll` | `getFileNamesStartingWith` in versions and readLatestVersion, in delete |
| `read`, `open` | `exists` and then opening the file, in read |
| `write`, `fill` | local: open with CREATE_NEW, then write the bytes |
| `write`, `put` | S3: `doesObjectExist`, then `putObject` |
| `remove`, `unlink` | delete; on S3 `doesObjectExist`, then `deleteObject` |

Names are opaque; the only thing the code does with their text, matching by
prefix, is the constant relation `StartsWith`. A version is its rank in
semantic-version order, and `KeyRank` its place in text order, which S3 pages
by. `PageSize` stands for the 1000 keys of one S3 listing. An IO error makes a
storage call fail without effect, except that an S3 put or delete can take
effect and lose its answer. A restart drops all requests and keeps the files.
So does what a restart in the middle of a write leaves: an unfinished file.

Simplifications: a local directory listing is one step (a `DirectoryStream` is
only weakly consistent); S3 is strongly consistent; a crash is a crash of the
process, not of the machine. Property groups are deleted as if no version set
referred to them; what `deleteValidation` does is in `ReferenceIntegrity`. An update whose body names another entity than its path
fails in `compareTo` before anything is written.

### EntityService

`stage[t]` is where a thread is in a method of the delegate; at the stages
`last` and `repository` it is inside a repository call. Looking into the cache,
putting (`create` and `update` put twice) and evicting are steps of their own.
The two delegates differ in what a delete evicts, the constant `EvictAll`. The
cache key is a constant function of name and version, so that an instance can
let keys collide as name + version without a separator does. Absent entities
are cached too, as `@Cacheable` does with an `Optional`.

### ScopeMatch and MappingService

A scope is a pair of a key and a value. `MatchesAt`, `NewMatchesAt` and
`Fallback` are the loops of `VersionSetMapping.get`; `MostSpecific` is what the
javadoc calls the best mapping. `ValuedAt`, `NewlyValuedAt` and `ValueScopes` are
those of `ScopeUtils.getScopeValue`, which looks for the value of a property
among the sets of scopes it is given for. The two searches do not get the same
query: `findMatch` adds the application to the scopes of the request, the search
for values uses them as they came (`SearchBDImpl.java:96` and `:144`).

`MappingService` runs the first loop key by key on a map that other threads
change. For each entry of the configuration (`Scan`), `pending` is the sets of
scopes that would be new matches there; the iterator comes to the place of each
of them once, in any order, as a weakly consistent iterator over a hash map does
(`Visit`), and finds what is mapped at that time. A set or delete
changes the map, serializes all of it, and saves that. `storage` is chosen in
`Init`. On the local storage a save opens the file (which creates it), tries the
lock once, starts to overwrite and finishes; a partly written file holds the
writing thread, and may be any mapping or none when it is loaded. The file is not
truncated: what is left of a longer mapping follows the JSON document and is
ignored by the parser. There is one server process on the file; releasing the
lock and closing the file succeed.

On Cassandra a save inserts a row for each mapping and deletes none
(`InsertRows`), so that a mapping whose deletion was acknowledged is loaded again
at the next start. The row's key is a JSON text, written by a mapper that leaves
empty arrays out (`JacksonConfig.java:48`): the empty set of scopes, the key of a
mapping with neither application nor scopes, becomes `{}`, which is read back as
a key whose set is null. `NullKey` is that key; the search passes over it, and
its own text, in which the set is written as null, is another row. `ParsedKey`
and `Parsed` are that conversion; two rows that are read as the same key count in
either order. The file keeps an empty array. The text of another set of scopes
depends on the order of a hash set; it is taken to be one text for each set.

`MappingHistory` records which changes no other change overlapped (`alone`) and
what clients know from their answers (`acked`); `MappingSearchHistory` adds what
was mapped all through a find (`steady`) and at any time of it (`seen`).

`getAllMappings` only reads the map and is left out; `findMatch` is modelled up
to the reference it finds, whose version set it then reads through the delegate
(`ReferenceIntegrity`).

### FileVersionRepository

A file version is two files, its model and its data. `files`, `pc` and the
steps are as in `FlatFileRepository`, but coarser, one step for each storage
call: the model is the same repository's (`BaseFlatFileRepository`), whose finer
steps that module has, and here the pair is what matters. The variable `storage`
is chosen in `Init` and never changes, so that one run covers both profiles.
`target` and `bytes` are the file a thread writes or erases and the bytes for
it; `listed` and `erased` are what a delete has yet to erase and what it has
erased (`allModelFileNames` and `allDataFileNames`, `erasedModels` and
`erasedData`). A file that is being filled holds its thread; read as a model it
is no JSON document, read as data it is whatever is there, `Partial`.

`Catch` is where an exception leads. Every storage failure is a
`RuntimeHengeException` except one: `doesObjectExist` in
`S3FileStorageService.writeBytes` is outside the `try`. It is the only way to
the handler that erases the model again (`EraseModel`). The handler of
`delete(name, version)` cannot be reached at all and has no action.

The data directory is a subdirectory of the models' directory, so that for a
file version called `dat` or `data` the listings of models find it. Names of the
module are no prefix of `data`.

### CurrentVersion

`setCurrentVersion` and `getCurrentVersion` of `FileBDImpl`, over the two
repositories. On files there is one JSON map for all names: a set reads it,
changes it and writes it back, without a lock. `file` is the set of contents
that a read may find now. The local storage writes over the bytes that are there,
from the start, in chunks and without truncating
(`LocalFileStorageService.java:59`). So a read in the middle of a write, a write
that stops half-way, and two writes that meet find or leave a new beginning
before an old end. Where the two join depends on lengths, and the splice may be a
JSON map: `StartWrite` allows every map of names and versions, and `Torn`, which
is none. Only where there was no file a beginning is all there can be. A whole
write that meets no other makes the map whole again, but a set that has read a
splice writes it. The history `intact` is whether no splice can have got into the
map, and `kept`, the versions that were set alone, is forgotten when one may
have (`Spoil`).

Over S3 a write is one put, whose answer may be lost. On Cassandra a set is a
select of the row, an update if there is one, and an insert, each of which may
fail or lose its answer. `stored` is which versions of files there are; uploads
and deletes change it in one step, and `FileVersionRepository` has their steps.

A get for a name without a current version fails on every storage: `Optional.of`
of null on files, `get` of an empty `Optional` on Cassandra. The map's file,
`CurrentFileVersionsMap`, lies in the directory of the data files
(`CurrentFileVersionFlatFileRepository.java:50`); a delete by a name with which
that file name starts removes it with the data
(`FileVersionFlatFileRepository.java:151`). Names of the modules are no such
prefix.

### ReferenceIntegrity

Each storage call of a validation, of a delete and of a search is a step; a write
is coarser, create and fill, since `FlatFileRepository` has its steps. The
storage is the local one. `files` are the two directories, of property groups and
of version sets; a version set holds the groups it refers to. The validation of
references asks whether a file exists, so it accepts a file that is created and
not yet filled. `deleteValidation` reads the version sets one by one and refuses
to delete a version that one of them refers to; the delete of a name asks
nothing (`PropertyGroupFlatFileRepository.java:50`). Names differ by more than
their case, which `deleteValidation` ignores.

A batch validates all it holds and then writes groups, version sets and mappings
in phases. Each phase is a parallel stream: its elements are written in any
order, and when one fails the batch answers while other elements are still being
written. `late` is what these may yet write, at any later time until a restart.
A batch resolves references among its own elements; the request is a set of
version sets that are equal without their versions, which `BatchType` allows for.

A search looks up the mapping, reads the version set and then its groups, one by
one, through delegates whose caches may be stale (`Answers`): what is stored, or
was once. References to file versions are validated as those to property groups
are, nothing protects them from a delete, and they are left out.

### SemanticVersion and CassandraRepository

A version is three parts; all that matters of a part is its value and with how
many digits it is written. `Lower` is the order of `SemanticVersionComparator`,
`TextLower` that of Cassandra's clustering column. `NotComparable` is where
`Integer.parseInt` throws: at a part greater than `MaxInt`, but only if no
earlier part differs. Versions that differ in leading zeros are equal for the
comparator and different rows of the table.

`rows` is the table of one class of entities, external to the source: one that
answers each statement as of one moment, as a single node does. `create` is one
insert and asks for nothing, so that it overwrites what is there, and so does
`update` after the delegate has compared versions. The repository therefore does
not implement `VersionedStore`, and the properties say what is true instead. A
read of a name without rows is an error (the flat-file repository answers
absent). `versions` is one select and changes nothing; it is left out, and
answers an empty set where the flat-file repository answers absent.

## 3. Runs and bounds

Passing runs:

| run | instance | shows |
|---|---|---|
| `FlatFileLocal` | 2 threads, 1 name, 2 versions, 2 contents, local, IO errors, crashes | type correctness; the repository implements `VersionedStore`; acknowledged writes are stored, acknowledged deletes are complete, a created name is new |
| `FlatFileS3` | 2 threads, 1 name, 2 versions whose text order differs, 2 contents, S3, all faults | no version is missed, deletes are complete, and a read finds nothing only if what it had picked was deleted, as long as one page holds all keys (it just does) |
| `ServiceNoDelete` | 2 threads, 2 versions, 2 contents, all faults, no deletes | what is cached is stored |
| `ServiceVersionSet` | 1 thread, 2 prefix-free names, 2 versions, 2 contents, crashes, all methods | between requests cache and storage agree; a delete removes files of its own name only |
| `ServiceFades` | 2 threads, 1 version, all methods, fairness | a deleted entity disappears from an expiring cache |
| `MappingSearch` | 1 thread, 5 keys, two of them of unconfigured combinations, 6 queries, 2 references, S3 and Cassandra, crashes; `TwoRows`: at most two rows in the table | a find answers with the most specific mapping while only configured combinations are mapped, and as the operator `Candidates` says in any case; acknowledged changes survive, deletions and the empty set on Cassandra excepted; before it starts, that the search for values finds the most specific one (`ValuesAreMostSpecific`) |
| `MappingShared` | 2 threads, the keys {application} and {application, env}, a query that is one of them and one that both apply to, 1 reference, all three storages, all methods, all faults | type correctness; the file lock keeps writers apart and is never left behind; acknowledged changes that no other overlapped survive, deletions on Cassandra excepted; a find that overlaps changes answers with what was mapped at some time of it |
| `FileVersion` | 2 threads, 1 name, 2 versions, 2 contents, both storages, crashes, `MaxFaults` = 2 failing storage calls; `OverlapOnVersion1`: calls overlap only as long as there is nothing but version 1 and at most one failure | type correctness; local versions are immutable pairs; acknowledged pairs are stored; a delete that runs alone is all or nothing |
| `CurrentVersion` | 2 threads, 2 names, 2 versions, all three storages, all faults; `Bounds`: three versions have been stored and one erased | type correctness; a set that ran alone is kept until the next; what is current was stored; both on the local storage until a splice may have got into the map |
| `References` | 2 threads, 1 name, 2 versions, 1 version set, 1 content, 2 batches, all methods, IO errors, crashes; `Bounds`: one file has been erased, one late task, and what a failure leaves meets one request at a time | type correctness; no reference leads to what was never there; a delete respects the references that were there all along; an acknowledged batch is stored whole; what a search misses was deleted |
| `Cassandra` | 2 threads, 1 name, versions 9.0.0, 09.0.0, 10.0.0 and 12.0.0, `MaxInt` = 11, all faults | type correctness; reads and updates are right among versions of the same widths; deletes are complete; what is absent was deleted; before it starts, that the two orders are what they should be (`TextLowerIsTextOrder`, `LowerIsNumericOrder`) |

Two threads are enough for every interleaving hazard listed: each is a race of
two requests, and a third would only repeat one of them. Two contents are what it
takes to see an overwritten version, two versions to tell the latest from the
last in text order (version 2 stands for 10.0.0 and version 1 for 9.0.0). One
name suffices where names do not interact; the only interactions are by prefix
and by cache key, so the run about prefixes has two, and the theorem about them
any number; and in the one map of current versions, whose run has two. Threads,
contents, names and references are symmetric where no liveness is checked and
no constant tells them apart. `ServiceVersionSet` has one thread and leaves out
IO errors, since with two requests at a time, or with a delete that fails
half-way and then evicts nothing, its property does not hold (below). In
`MappingShared` one reference is enough, since a change that is lost shows in a
key that is there or not; `MappingSearch` has two, to tell the mappings apart. In
`FileVersion` a thread on its own needs two versions, for a delete that fails
after it has erased some of the data, and two failures, for a create that leaves
an orphan and a delete that then meets it; two threads race on one version as
well as on two. In `Cassandra` the value 11 stands for 2^31 - 1 and 12 for a part
that no integer holds; 9.0.0 and 10.0.0 differ in text order, 9.0.0 and 09.0.0 are
equal to the comparator. In `References` a version set refers to two groups, so
that one of them can be there and the other not; one batch resolves its own
references, the other needs what is stored, and maps. Its theorems hold without
the bounds.

One run, `FlatFilePrefix`, ends in a violation of a sentence of the
documentation: deleting `pet` deletes `petstore`.

What the modules also allow, and no property here denies. Each is a behaviour of
the model that follows the code at the line given; no run is kept for it.

Flat files and storage:

* Over S3 two writes of one version can both see no object, and the second put
  overwrites the first (`S3FileStorageService.java:70`), so `ImplementsStore`
  is claimed for the local storage, and over S3 for one request at a time only.
* A local write that fails after it has created its file is reported as a
  conflict with an existing file, and leaves an unfinished file that blocks the
  version until it is deleted by name (`LocalFileStorageService.java:62`).
* Two concurrent creates of one name with different versions can both succeed
  (`BaseFlatFileRepository.java:78`).
* `read(name)` can answer absent because the version it picked was deleted
  before it read it (`BaseFlatFileRepository.java:339`). If a name is a prefix of
  another it can also be because a delete of the shorter name removed it, which
  `AbsentWasRemoved` therefore excludes.
* With more keys than one S3 listing returns, a delete leaves the rest and
  reports success (`S3FileStorageService.java:194`). The properties about
  listings are claimed for one page; no run and no theorem goes beyond it.

Delegates:

* A version that was deleted is served from the cache of property groups, whose
  delete of a name evicts the key of the name alone (`PropertyGroupBDImpl.java:96`).
* Of two concurrent updates, the lower version can be written last, or be cached
  last as the latest (`PropertyGroupBDImpl.java:78` and `:88`).
* Cache keys are name + version without a separator, so that `api1` + `1.0.0`
  and `api` + `11.0.0` share one. `CacheKey` is a constant of `EntityService`
  for this reason; the runs use keys that differ.

Mapping:

* A mapping is found before it has been saved, and stays if saving fails
  (`VersionSetMappingBDImpl.java:87`).
* Of two concurrent changes, the older snapshot can be saved last, so that the
  other change, although acknowledged, is not in the file
  (`VersionSetMappingBDImpl.java:89`). `AckedIsSaved` is about changes that no
  other change overlapped, and says that later ones, overlapping or not, keep them.
* A find whose exact key is removed between `containsKey` and `get` answers
  absent, although a more generic mapping applies (`VersionSetMapping.java:66`).
* A find can answer with a more generic mapping that was set while it searched,
  although a more specific one was there all the time: any set of scopes that has
  not matched before is a new match, and the last one counts
  (`VersionSetMapping.java:102`; its comment at line 52 promises the best).
* Deleting a key that is not mapped succeeds, and removes nothing, when a more
  generic mapping applies to it (`VersionSetMappingBDImpl.java:111`).
* A mapping of the empty set of scopes is a new match at the first entry of the
  configuration together with the mapping of that entry's keys, and the order of
  the hash map decides between them (`VersionSetMapping.java:102`).
* The server that dies after it created the mapping file and before it wrote it
  does not start again: load fails on the empty file
  (`LocalFileStorageService.java:83`; `up` becomes false in `Restart`).
* On Cassandra a deleted mapping is there again after a restart
  (`VersionSetMappingCassandraRepositoryImpl.java:54`), and a mapping of the empty
  set of scopes, although acknowledged, is then not under its key, so that no
  search finds it (`VersionSetMappingCassandraRepositoryImpl.java:71`).

File versions:

* An upload that fails while writing its data leaves its model, and the version
  can neither be read nor created again (`FileVersionFlatFileRepository.java:74`).
* A rollback that fails itself stops there, and the files it has not rewritten
  are lost (`FileVersionFlatFileRepository.java:300`). Over S3 one failure is
  enough: an object whose deletion took effect but was not answered is not in
  `erased`. `DeleteIsAllOrNothing` says exactly what is left: one failure, local.
* A delete of a file version and a create that overlap can leave the new model
  with the old data, which exists when the create comes to write its own
  (`FileVersionFlatFileRepository.java:71`). The create reports a conflict, and
  the pair is readable until the delete reaches the data, which leaves the new
  model an orphan. `VersionsAreImmutable` is about a pair that does not change;
  it does not say that one upload made it.
* Of two overlapping changes of current versions one can be lost, also if they
  are of different names (`CurrentFileVersionFlatFileRepository.java:49`).
  Erasing a version leaves it current.
* A local write of the map that fails half-way, or a crash in it, leaves a splice
  of two maps. If it is no JSON document, every later set and get fails; if it is
  one, entries can be missing or name a version that was never stored, and later
  sets keep them. A get in the middle of a write can see the same
  (`LocalFileStorageService.java:59`).

References:

* A reference can be validated by a file that its writer never fills
  (`FlatFileModelReferenceExistsValidation.java:36`).
* A version set can be created after `deleteValidation` has listed the version
  sets and before the group goes, and then refers to what is deleted
  (`PropertyGroupFlatFileRepository.java:64`). The delete of a name removes
  groups that are referred to in any case.
* A batch that has answered with an error can go on writing
  (`ConvenienceRS.java:97`).

Cassandra:

* `create` and `update` overwrite a version that exists.
* In text order 9.0.0 comes after 10.0.0, so that a read answers 9.0.0, and an
  update to 10.0.0 passes the comparison, and overwrites, while a row 10.0.0
  exists (`BaseCassandraRepository.java:86`).
* An update that has to compare a part too great for an integer is an error
  (`SemanticVersionComparator.java:47`), while one that differs earlier is not;
  once such a version is the latest, no version with the same parts before it
  can follow.

Deadlock is checked in every run: there is always a next request, or a restart.

Fairness is assumed in `ServiceFades` only: `WF(Progress(t))`, because a request
thread that runs is scheduled until it has answered, and nothing in a request
waits for another; and `WF(Expire(k))`, because with
`cache.expiration.minutes` > 0 the cache is built with `expireAfterWrite`, so an
entry goes when its time has passed. Nothing is assumed about clients.

## 4. Proofs

All theorems are for any number of threads, names, versions and contents, and
for any set of faults, under the named assumptions on the constants that the
modules declare, and what is said below.

`FlatFileRepositoryProofs`:

* `TypeCorrect`: `Spec => []TypeOK`. The inductive invariant is `IInv`, `TypeOK`
  and `RequestOK`: a thread at a reading, writing or removing step is in a
  request that has such a step, with the fields the step uses.
* `RepositoryImplementsStore`: where no file is written over (`NoRace`: the
  storage is local, or one request is handled at a time) the repository implements
  `VersionedStore`. The mapping is `Visible`: an unfinished file is no version.
  Every step publishes, retracts or stutters. `IInv` is needed to know that a
  filled file has a content and that only deletes remove; `PutOK`, that an object
  about to be put is not there, since S3 looks for it in one call and puts it in
  another.
* `PrefixFreeDeletesOwnFilesOnly`: if no name is a prefix of another, on both
  storages. The invariant on top is `ListedOwn`: what a thread has listed is
  files of the name in its request.

`FlatFileHistoryProofs`, about answers. The invariants say what a thread knows in
the middle of a call (`Knows`): what it has listed contains all that was stored
ever since the call began, what it picked is as high as any of these, and what it
has yet to remove is all that is left of them. From `HInv` follow
`NoVersionIsMissed`, `DeletesAreComplete` and `CreatesAreNew`, if one listing is
complete (`OnePage`: the storage is local, or all keys fit on a page);
`AbsentWereRemoved` also needs that no name is a prefix of another and a second
invariant, `PickedInv`; `AckedWritesAreStored` needs `NoRace` and has `WriteInv`,
that between opening and filling its file a writer owns it. With two requests at
a time over S3 it is false, for the put that overwrites.

`EntityServiceProofs`:

* `ServiceTypeCorrect`, with `KnowledgeOK` and `CallOK`: what a thread carries at
  each stage of a delegate's method, and at which step of the repository it is.
  `NotEntitiesAssumption` says that the marks for absent values are no entities.
* `ServiceImplementsRepository`: `ServiceSpec => Spec`. The delegates use the
  repository as its specification allows, so that its theorems hold of
  them: `ServiceDeletesOwnFilesOnly` is one.
* `ServiceImplementsStore`: under `NoRace` the stack, from the delegates to the
  storage, implements `VersionedStore`.
* `CachedEntitiesAreStored`: under `NoRace`, and while clients delete nothing, what
  is cached is stored. `StoredOK` says the same of what threads hold on the way
  from the storage to the cache.
* `CacheStaysCoherent`: between requests, cache and storage agree. The property
  says nothing of the states inside a request and is not inductive; `CohInv` says
  for every state which keys the running call may have made untrue (`Stale`: all
  of them from the first removal of a delete to its eviction, the two keys of a
  written version from the write to their puts), that all others agree with the
  files, and that so does what the call has seen (`Sees`) and holds
  (`HoldsTruth`). A restart empties the cache, so a crash in the middle of
  a call needs nothing. The assumptions are those of the run, and each is needed:
  one request at a time, a cache emptied on every delete (`EvictAll`, which is
  `VersionSetBDImpl`), no IO errors (a delete that fails half-way evicts nothing),
  keys that differ, names that are no prefixes of each other, and listings that
  are complete: a read of `pet` that lists `petstore` as well, or not all of
  `pet`, takes the latest from the wrong versions. Section 3 has the others.

`MappingServiceProofs`:

* About operators: if the configuration lists generic combinations of keys first
  (`GenericFirst`) and only configured combinations are mapped, the search finds
  exactly the most specific mapping that applies (`FallbackIsMostSpecific`), and
  at most one for a query that gives each key one value (`FallbackIsUnique`), so
  that the order of the hash map does not matter. The lemma they rest on,
  `NewAtOwnEntry`: a mapping is a new match at the entry of its own keys and at
  no other. The configuration in `application.yml` satisfies `GenericFirst`.
  `ValueIsMostSpecific` is the same for the value of a property, whichever
  combinations it has values for.
* `MappingTypeCorrect`, on all storages, with `NullKey` among the keys (the invariant adds `CallOK`: what is about to be put or
  saved is well-typed); `LockAlwaysReleased`, from `LockOK`: exactly the thread in
  the locked section holds the lock; `WriterAlwaysAlone`, from `HeldFileOK`: what
  the holder of the lock has done to the file so far; and, without faults,
  `LockedFileIsWhole`: the file is empty or partly written only while it is
  locked. With faults that is false (section 3).
* `FindsAreCandidates` and `FindsAreBest`: with one request at a time the loop,
  key by key, answers as the operators say, and so with the most specific
  mapping. The invariant `SearchInv` relates the local variables of the loop
  to the entries it has passed. With two requests the mapping changes under the
  loop, and neither holds; what does is `FindIsTimely`, which is model-checked.
* `AckedIsAlwaysSaved`, from `MappingConstantsAssumption` only: any number of
  threads, all storages, all faults. `AckInv` adds to `TypeInv` that what clients
  know of a key is in memory, in every snapshot that is yet to be written, and in
  the file if it is whole (`KeyOK`); that a key is unknown while a change of it is
  in progress (`ChangedIsUnknown`); and that a change which is still alone has
  nobody beside it and has put its effect in memory (`CallKnows`). So a stale
  snapshot of an overlapping change can lose only what was changed meanwhile, and
  that is not known. What a load makes of the saved keys is `LoadedShows`: in
  Cassandra a key other than the empty one is read back as itself
  (`ParsedIsMapping`), and what was not deleted is there.

`FileVersionRepositoryProofs`:

* `FileVersionTypeCorrect` and, on the local storage, `LocalVersionsAreImmutable`.
  The inductive invariant has three parts: `ControlOK`, which methods make which
  storage calls (`Calls`); `KnowledgeOK`, a thread that reads knows a version, one
  that writes or unlinks a file and bytes; `DataOK`, the types. Immutability then
  rests on `OneFileChange`: a step changes one file, and only one that was not
  complete or will not be, so that the pair it belongs to is published, retracted
  or left alone.
* `FileVersionsImplementStore`: under `NoRace` the repository implements
  `VersionedStore`, where an artifact is a version with both its files. `PutOK` is
  again what S3 needs.
* `AckedPairsAreStored`, about the history and without assumptions: an upload whose
  model is done has it stored, or it was erased since (`UploadOK`), and the same
  for its data when it ends. On the local storage that is so whatever interleaves;
  over S3 for a call that ran alone, and `AloneOK` says what the variable `alone`
  promises: no other thread is in a call. `StepMoves` and `FileChange` say what
  else a step may do to the files.
* `DeletesAreAllOrNothing`, also without assumptions: of a local delete of a name
  that ran alone and met one failure at most. `DeleteInv` follows it through its
  passes over models and data and through its rollback. `Undoable`: every file is
  as the call found it or its bytes are in `erased`, and what is in `erased` is
  not there. `ErasesOK`: before the failure nothing has been left out, and the
  data go only when the models are gone. `RestoresOK`: after it the rollback
  shrinks `erased` until nothing is left of it, and no write of it fails, because
  its file is not there and the one failure has been.

`CurrentVersionProofs`: `CurrentTypeCorrect`, `AckedSetsAreKept` and
`CurrentVersionsWereStored`, on all storages and with all faults. The invariant
says, while no write is under way, of each possible content of the file that it
has what was set alone and only what was stored; of a thread that has read the
map the same about its copy (`KeepsOK`, `StoredOK`); that a set which runs alone
is the only one that writes (`AloneOK`); and that where writes have met nothing is
kept and the map is not `intact` (`MixedOK`).

`ReferenceIntegrityProofs`: `ReferencesTypeCorrect`, `ReferencesAlwaysResolve`,
`DeletesRespectReferences`, `AckedBatchesAreStored` and `MissingWereDeleted`, from
one inductive invariant, whose part for a thread (`ThreadOK`) says at each step
which of its references it has validated, which version sets a delete has yet to
read, and which elements of a batch are stored. The hard part is a file that is
created and not yet filled: `ReferencesResolve` accepts it, since the validation
does.

`CassandraRepositoryProofs`: `LowerIsAnOrder`, the comparator is a strict weak
order on all versions; `TextLowerOfSameWidths`, text order agrees with it on
versions written with as many digits; and `CassandraTypeCorrect`,
`ReadsAreLatest`, `UpdatesGoUp`, `DeletesAreComplete`, `AbsentWereDropped` from an
invariant on what the thread has selected and on the history variables.

Only model-checked: liveness (`DeletedFadesFromCache`) and the absence of
deadlock, which are out of the prover's reach, and `FindIsTimely`. Every other
invariant and action property of the passing runs is a theorem; a theorem with an assumption
names it, and where it restricts more than the run did to keep it small, section
3 says which behaviour of the code makes the property false without it.
The recursive definitions that a proof could only reach by induction over data
are avoided: the loops of the searches are quantifiers over the entries, and
nothing is declared RECURSIVE.

## 5. Not modelled

* Exception mapping, field validation, the domain model and its builders, server
  configuration, security and metrics: stateless, or wiring.
* The cached methods of `FileBDImpl`. They have the structure of
  `PropertyGroupBDImpl`, which `EntityService` models, over the repository of
  `FileVersionRepository`; the composition would multiply both state spaces and
  show the same races.
* Replication and consistency levels of Cassandra: the table is taken to answer
  each statement as of one moment. With more nodes it can only answer less.
* `versions` on Cassandra, `getAllMappings`, `getPropertyGroup`: they read once and
  change nothing.
* The file formats (JSON and its field names), and the layout of a search's
  answer.
* The JavaScript in `henge-service/src/main/resources/public/swagger`, the Swagger
  user interface: a third-party browser application that the server hands out as
  static files. It holds none of the state of the server and none of its logic,
  although it is the larger part of the repository's lines.
* The Eureka server, the demo client, packaging and load tests.
