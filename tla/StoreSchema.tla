----------------------------- MODULE StoreSchema ----------------------------
(***************************************************************************)
(* How a database of an older version is brought to the current schema     *)
(* when the store is opened (model/store.py, _migrate and the functions it *)
(* runs), and what becomes of it when a migration fails, the process is    *)
(* killed, or the updater puts the older image back and that image writes  *)
(* into the newer database.                                                *)
(*                                                                         *)
(* _migrate opens one transaction.  The migrations that create tables do   *)
(* so with executescript, which commits whatever is open first; an ALTER   *)
(* TABLE after that commits by itself, and only the next UPDATE opens a    *)
(* transaction again.                                                      *)
(*                                                                         *)
(* Abstractions: a device has at most one signal of each kind the          *)
(* migrations tell apart - a reading, a counter of the radio (not          *)
(* functional), a feedback value, an attribute of a Zigbee management      *)
(* cluster - and a sensor, a button, a lamp differ in which; a kind it has *)
(* no row of stands unticked.  Titles and units are left out; a column is  *)
(* the number of the migration that adds it.                               *)
(***************************************************************************)
EXTENDS Naturals, FiniteSets

CONSTANTS
  Originals,      \* schema versions the older image may have
  KindSets,       \* the sets of kinds a device may have signals of
  MaxStops,       \* bound: failed migrations, kills, stops
  MaxTicks        \* bound: ticks by the user and exports

SchemaVersion == 17
SchemaKinds == {"reading", "counter", "feedback", "management"}
SchemaDevices == {"first", "added"}

ASSUME OriginalsAssumption == Originals \subseteq 0..(SchemaVersion - 1)
ASSUME KindSetsAssumption == KindSets \subseteq SUBSET SchemaKinds

VARIABLES
  original,   \* schema version of the older image
  image,      \* schema version of the running code, 0 while none runs
  step,       \* next migration, 0 outside of _migrate
  repaired,   \* the store has been opened
  seen,       \* what the connection reads
  stored,     \* what is on the disk
  inTransaction,
  stops, ticks,
  before,     \* history: the disk when _migrate began
  wanted,     \* history: what one undisturbed run would have made of it
  archive     \* history: what the last export of a device contained

schemaVars == <<original, image, step, repaired, seen, stored, inTransaction, stops, ticks,
                before, wanted, archive>>

---------------------------------------------------------------------------
(* What register_signals of an image writes for a new signal; a column it  *)
(* does not know takes its default.  Zigbee came with the ninth version;   *)
(* the fourteenth passes no management cluster on.                         *)

NoRow == [ticked |-> FALSE, functional |-> FALSE]

Registered(version, k) ==
  [ticked |-> (version >= 3 => k # "counter") /\ (version >= 12 => k # "feedback"),
   functional |-> version >= 4 => k # "counter"]

Coming(version) == {ks \in KindSets : "management" \in ks => version \in 9..13}

Commissioned(db, d, version, ks) ==
  [db EXCEPT !.device = @ \cup {d},
             !.kinds = [@ EXCEPT ![d] = ks],
             !.signal = [@ EXCEPT ![d] = [k \in SchemaKinds |->
                           IF k \in ks THEN Registered(version, k) ELSE NoRow]],
             !.blank = IF version < 9 THEN @ \cup {d} ELSE @]

Ticked(db, d) == {k \in SchemaKinds : db.signal[d][k].ticked}

\* "silent" is history: the devices whose ticks the third migration changed
\* while nothing marked them, until their next export.
Database(version, ks) ==
  Commissioned([version |-> version,
                columns |-> {v \in {1, 2, 4, 6, 7, 9, 11, 13, 15, 16} : v <= version},
                device |-> {},
                kinds |-> [d \in SchemaDevices |-> {}],
                signal |-> [d \in SchemaDevices |-> [k \in SchemaKinds |-> NoRow]],
                blank |-> {},
                changed |-> [d \in SchemaDevices |-> TRUE],
                silent |-> {}], "first", version, ks)

---------------------------------------------------------------------------
(* The migrations                                                          *)

AddsColumns == {1, 2, 4, 6, 7, 9, 11, 13, 15, 16}

\* Mutant: the fourth migration goes through executescript, too.
RunsScriptAtFour == {4, 5, 8, 10}

RunsScript == {5, 8, 10}

WithColumns(v, db) ==
  IF v \in AddsColumns THEN [db EXCEPT !.columns = @ \cup {v}] ELSE db

\* Every signal of the kinds is unticked, and its device marked as changed.
Unticked(db, kinds) ==
  [db EXCEPT
    !.signal = [d \in SchemaDevices |-> [k \in SchemaKinds |->
                  IF d \in db.device /\ k \in kinds THEN [@[d][k] EXCEPT !.ticked = FALSE] ELSE @[d][k]]],
    !.changed = [d \in SchemaDevices |-> @[d] \/ (d \in db.device /\ kinds \cap Ticked(db, d) # {})]]

Hidden(db, kinds) ==
  [db EXCEPT
    !.signal = [d \in SchemaDevices |-> [k \in SchemaKinds |->
                  IF d \in db.device /\ k \in kinds THEN [@[d][k] EXCEPT !.functional = FALSE] ELSE @[d][k]]]]

\* _migrate_to_v3 rewrites every tick and marks nothing as changed.
AtThird(db, d) == db.kinds[d] \ {"counter"}

Rewritten(db) == {d \in db.device : ~ db.changed[d] /\ Ticked(db, d) # AtThird(db, d)}

Rederived(db) ==
  [db EXCEPT
    !.signal = [d \in SchemaDevices |-> [k \in SchemaKinds |->
                  IF d \in db.device THEN [@[d][k] EXCEPT !.ticked = k \in AtThird(db, d)] ELSE @[d][k]]],
    !.silent = @ \cup Rewritten(db)]

\* A column that is there already is not filled again.
Filled(v, db) ==
  CASE v = 3                          -> Rederived(db)
    [] v = 4 /\ v \notin db.columns   -> Hidden(db, {"counter"})
    [] v = 9                          -> [db EXCEPT !.blank = {}]
    [] v = 12                         -> Unticked(db, {"feedback"})
    [] v = 14                         -> Hidden(Unticked(db, {"management"}), {"management"})
    [] OTHER                          -> db

Migrated(v, db) == WithColumns(v, Filled(v, db))

Writes(v, db) == v \in {3, 9, 12, 14} \/ (v \in {1, 4} /\ v \notin db.columns)

\* All migrations of a run without a stop.
MigratedAll(db) ==
  LET upTo[v \in db.version..SchemaVersion] ==
        IF v = db.version THEN db ELSE Migrated(v, upTo[v - 1])
  IN  [upTo[SchemaVersion] EXCEPT !.version = SchemaVersion]

---------------------------------------------------------------------------
SchemaInit ==
  /\ original \in Originals
  /\ image = 0 /\ step = 0 /\ repaired = FALSE
  /\ \E ks \in Coming(original) : stored = Database(original, ks)
  /\ seen = stored
  /\ inTransaction = FALSE
  /\ stops = 0 /\ ticks = 0
  /\ before = stored /\ wanted = stored
  /\ archive = [d \in SchemaDevices |-> {}]

Running == image # 0 /\ repaired

\* The new image opens the store.
StartNew ==
  /\ image = 0
  /\ image' = SchemaVersion
  /\ repaired' = FALSE
  /\ IF stored.version >= SchemaVersion
       THEN UNCHANGED <<step, inTransaction, before, wanted>>
       ELSE /\ step' = stored.version + 1
            /\ inTransaction' = TRUE
            /\ before' = stored
            /\ wanted' = IF wanted.version = SchemaVersion THEN wanted ELSE MigratedAll(stored)
  /\ UNCHANGED <<original, seen, stored, stops, ticks, archive>>

\* One migration: executescript commits what is open, ALTER TABLE stays in an
\* open transaction or commits by itself, UPDATE opens one.
Migrate ==
  LET open == inTransaction /\ step \notin RunsScript
  IN  /\ image = SchemaVersion /\ step \in 1..SchemaVersion
      /\ seen' = Migrated(step, seen)
      /\ stored' = IF open THEN stored ELSE WithColumns(step, seen)
      /\ inTransaction' = (open \/ Writes(step, seen))
      /\ step' = step + 1
      /\ UNCHANGED <<original, image, repaired, stops, ticks, before, wanted, archive>>

\* PRAGMA user_version and the commit.
MigrationsEnd ==
  /\ image = SchemaVersion /\ step = SchemaVersion + 1
  /\ seen' = [seen EXCEPT !.version = SchemaVersion]
  /\ stored' = seen'
  /\ inTransaction' = FALSE
  /\ step' = 0
  /\ UNCHANGED <<original, image, repaired, stops, ticks, before, wanted, archive>>

\* _repair_rows_written_by_older_versions, and the store is open.
Repairs ==
  /\ image = SchemaVersion /\ step = 0 /\ ~repaired
  /\ seen' = [seen EXCEPT !.blank = {}]
  /\ stored' = seen'
  /\ repaired' = TRUE
  /\ UNCHANGED <<original, image, step, inTransaction, stops, ticks, before, wanted, archive>>

\* A migration raises and is rolled back, or the process ends.
Stops ==
  /\ image # 0
  /\ stops < MaxStops /\ stops' = stops + 1
  /\ seen' = stored
  /\ inTransaction' = FALSE
  /\ image' = 0 /\ step' = 0 /\ repaired' = FALSE
  /\ UNCHANGED <<original, stored, ticks, before, wanted, archive>>

\* The updater has put the older image back; for it the schema is new enough.
StartOld ==
  /\ image = 0
  /\ stored.version >= original /\ original > 0
  /\ image' = original /\ repaired' = TRUE
  /\ wanted' = stored
  /\ UNCHANGED <<original, step, seen, stored, inTransaction, stops, ticks, before, archive>>

\* A device is commissioned under the running image.
Commission ==
  /\ Running /\ "added" \notin seen.device
  /\ \E ks \in Coming(image) : seen' = Commissioned(seen, "added", image, ks)
  /\ stored' = seen'
  /\ UNCHANGED <<original, image, step, repaired, inTransaction, stops, ticks, before, wanted, archive>>

\* A snapshot comes: register_signals re-decides what is functional, for the
\* signals the snapshot still carries; the ticks belong to the user.
Refresh(d) ==
  /\ Running /\ image = SchemaVersion /\ d \in seen.device
  /\ seen' = [seen EXCEPT
       !.signal[d] = [k \in SchemaKinds |-> IF k \notin seen.kinds[d] \ {"management"} THEN @[k]
                                      ELSE [@[k] EXCEPT !.functional = Registered(image, k).functional]],
       !.changed[d] = TRUE]
  /\ stored' = seen'
  /\ UNCHANGED <<original, image, step, repaired, inTransaction, stops, ticks, before, wanted, archive>>

UserTicks(d, k) ==
  /\ Running /\ d \in seen.device /\ k \in seen.kinds[d]
  /\ ticks < MaxTicks /\ ticks' = ticks + 1
  /\ seen' = [seen EXCEPT !.signal[d][k].ticked = ~@, !.changed[d] = TRUE]
  /\ stored' = seen'
  /\ UNCHANGED <<original, image, step, repaired, inTransaction, stops, before, wanted, archive>>

UserExports(d) ==
  /\ Running /\ image >= 2 /\ d \in seen.device
  /\ ticks < MaxTicks /\ ticks' = ticks + 1
  /\ archive' = [archive EXCEPT ![d] = Ticked(seen, d)]
  /\ seen' = [seen EXCEPT !.changed[d] = FALSE, !.silent = @ \ {d}]
  /\ stored' = seen'
  /\ UNCHANGED <<original, image, step, repaired, inTransaction, stops, before, wanted>>

SchemaNext ==
  \/ StartNew \/ Migrate \/ MigrationsEnd \/ Repairs \/ Stops \/ StartOld \/ Commission
  \/ \E d \in SchemaDevices : Refresh(d) \/ UserExports(d) \/ \E k \in SchemaKinds : UserTicks(d, k)

SchemaSpec == SchemaInit /\ [][SchemaNext]_schemaVars

---------------------------------------------------------------------------
(* Properties                                                              *)

SchemaTypeOK ==
  /\ image \in {0, original, SchemaVersion} /\ step \in 0..(SchemaVersion + 1)
  /\ step > 0 => image = SchemaVersion /\ ~repaired
  /\ ~inTransaction => seen = stored

\* However often the migrations were stopped and begun anew, the run that gets
\* to the end leaves what one undisturbed run would have left.
ResumedAsOnce ==
  MigrationsEnd => /\ stored'.signal = wanted.signal
                   /\ stored'.changed = wanted.changed
                   /\ stored'.columns = wanted.columns

\* A device the older image wrote without an address has one when the new image
\* is up (_repair_rows_written_by_older_versions).
AddressedWhenUp == Running /\ image = SchemaVersion => seen.blank = {}

\* The export tab shows a device whose signals a migration has unticked as
\* changed (docstrings of _migrate_to_v12 and _migrate_to_v14).  Only the third
\* one changes ticks that nothing marks: a device exported under version 2 that
\* has no feedback value goes on being called unchanged.
UntickedIsShown ==
  Running => \A d \in seen.device :
    ~ seen.changed[d] /\ d \notin seen.silent => archive[d] = Ticked(seen, d)

SchemaSafe ==
  [](SchemaTypeOK /\ AddressedWhenUp /\ UntickedIsShown) /\ [][ResumedAsOnce]_schemaVars

\* The docstring of _migrate: "if a migration fails, the database stays
\* unchanged".
MigrationIsAllOrNothing ==
  [][Stops /\ step > 0 => stored' = before]_schemaVars
=============================================================================
