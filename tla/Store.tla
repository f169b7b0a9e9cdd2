------------------------------- MODULE Store --------------------------------
(***************************************************************************)
(* The bridge's one SQLite database (model/store.py): devices and their    *)
(* commands, groups, their members and the commands a group offers, and    *)
(* what the export tab says of them (api/export.py).                       *)
(*                                                                         *)
(* All writers share one connection.  A method writes its rows and commits *)
(* them; the methods that touch several rows roll back when a write fails, *)
(* the single-row ones do not, and no method covers a commit that fails:   *)
(* its writes stay in the connection's open transaction, which the next    *)
(* commit of any other method carries to the disk.  A method that changes  *)
(* a membership or a command list commits once for itself and once more    *)
(* for every group it recomputes.  The process can be killed in between.   *)
(*                                                                         *)
(* Abstractions: a row of the device table has one label, of two values,   *)
(* that stands for all the device's template shows besides its commands;   *)
(* a pair (cluster, command) is a model value; the timestamps appear as    *)
(* what changed_since_export makes of them; rooms are left out.            *)
(***************************************************************************)
EXTENDS Naturals, FiniteSets, Sequences

CONSTANTS
  Things,       \* physical devices
  CommandPairs,        \* (cluster, command) pairs
  LightPairs,   \* LIGHT_COMMAND_PAIRS
  Offers,       \* [Versions -> [Things -> SUBSET Pairs]]: extract_commands
  Slug,         \* [Versions -> [Pairs -> names]]: clusters.yaml
  MaxDevices,   \* bound: rows ever written to the device table
  MaxGroups,    \* bound: groups ever created
  MaxStoreFaults,    \* bound: failed writes, failed commits and kills
  MaxStoreEdits      \* bound: renames and ticks by the user

Versions == DOMAIN Slug

ASSUME StoreAssumption ==
  /\ 1 \in Versions /\ Versions \subseteq Nat
  /\ Slug \in [Versions -> [CommandPairs -> {Slug[v][p] : v \in Versions, p \in CommandPairs}]]
  /\ Offers \in [Versions -> [Things -> SUBSET CommandPairs]]
  /\ LightPairs \subseteq CommandPairs
  /\ {MaxDevices, MaxGroups, MaxStoreFaults, MaxStoreEdits} \subseteq Nat

VARIABLES
  rows,         \* what the connection reads: the disk and the open transaction
  kept,         \* what is on the disk
  regroup,      \* groups the running method still has to recompute
  marking,      \* devices and groups the running download still has to mark
  shot,         \* what that download's archive says of them
  table,        \* version of clusters.yaml the process has loaded
  storeFaults, storeEdits,
  passedOver,   \* history: groups whose recomputation was cut off
  delivered,    \* history: what the last archive the user got says
  undelivered   \* history: marked by a download that failed afterwards

storeVars == <<rows, kept, regroup, marking, shot, table, storeFaults, storeEdits,
               passedOver, delivered, undelivered>>

GroupIds == 1..MaxGroups
DeviceName(d) == <<"device", d>>
GroupName(g) == <<"group", g>>

Active(db) == {d \in DOMAIN db.device : db.device[d].active}
CommandsOf(db, d) == {c \in db.command : c.device = d}
PairsOf(db, d) == {c.pair : c \in CommandsOf(db, d)}
MembersOf(db, g) == {d \in Active(db) : <<g, d>> \in db.member}
GroupsWith(db, d) == {g \in db.group : <<g, d>> \in db.member}
GroupCommandsOf(db, g) == {c \in db.groupCommand : c.group = g}

\* A light command is offered when any member carries it, any other one when
\* every member does.
Offered(db, g) ==
  LET members == MembersOf(db, g)
  IN  {p \in CommandPairs :
                   /\ \E d \in members : p \in PairsOf(db, d)
                   /\ p \notin LightPairs => \A d \in members : p \in PairsOf(db, d)}

\* What the templates of a device or a group say.
Content(db, x) ==
  IF x[1] = "device"
    THEN [label |-> db.device[x[2]].label,
          commands |-> {<<c.key, c.slug>> : c \in CommandsOf(db, x[2])}]
    ELSE [label |-> db.label[x[2]],
          commands |-> {<<c.key, c.slug>> : c \in {r \in GroupCommandsOf(db, x[2]) : r.exported}}]

ChangedSinceExport(db, x) ==
  IF x[1] = "device" THEN db.device[x[2]].changed ELSE db.changed[x[2]]

Exportable(db) ==
  {DeviceName(d) : d \in Active(db)} \cup
  {GroupName(g) : g \in {h \in db.group : \E c \in GroupCommandsOf(db, h) : c.exported}}

Empty == [device |-> <<>>, command |-> {}, group |-> {}, lastGroup |-> 0, member |-> {},
          groupCommand |-> {}, label |-> [g \in GroupIds |-> 0],
          changed |-> [g \in GroupIds |-> TRUE]]

StoreInit ==
  /\ rows = Empty /\ kept = Empty
  /\ regroup = {} /\ marking = {} /\ shot = <<>>
  /\ table = 1
  /\ storeFaults = 0 /\ storeEdits = 0
  /\ passedOver = {} /\ delivered = <<>> /\ undelivered = {}

MethodsIdle == regroup = {} /\ marking = {}

\* The groups that are left without their recomputation when a method fails.
PassOver(groups) == passedOver' = passedOver \cup groups

---------------------------------------------------------------------------
(* One transaction of a method: its writes reach `db`, `groups` are        *)
(* recomputed after it.                                                    *)

Commits(db, groups) ==
  /\ rows' = db /\ kept' = db
  /\ regroup' = groups
  /\ UNCHANGED <<storeFaults, passedOver>>

\* The commit raises: nobody rolls back, and the method ends here.
LeavesOpen(db, groups) ==
  /\ storeFaults < MaxStoreFaults /\ storeFaults' = storeFaults + 1
  /\ rows' = db
  /\ regroup' = {}
  /\ PassOver(groups)
  /\ UNCHANGED kept

\* A write raises in a method with the rollback guard: whatever else waited in
\* the open transaction goes with it.
RollsBack(groups) ==
  /\ rows' = kept
  /\ regroup' = {}
  /\ PassOver(groups)
  /\ UNCHANGED kept

WriteFails(groups) == storeFaults < MaxStoreFaults /\ storeFaults' = storeFaults + 1 /\ RollsBack(groups)

Guarded(db, groups) ==
  Commits(db, groups) \/ LeavesOpen(db, groups) \/ WriteFails({})

Unguarded(db) == Commits(db, {}) \/ LeavesOpen(db, {})

\* A method that is not part of a download.
Method == MethodsIdle /\ UNCHANGED <<marking, shot, table, delivered, undelivered>>

---------------------------------------------------------------------------
(* Devices                                                                 *)

\* register_device: an active device is found again, a removed one gets a new
\* row.
RegisterDevice(t) ==
  /\ Method
  /\ \A d \in Active(rows) : rows.device[d].thing # t
  /\ Len(rows.device) < MaxDevices
  /\ Unguarded([rows EXCEPT !.device =
                  Append(@, [thing |-> t, active |-> TRUE, label |-> 0, changed |-> TRUE])])
  /\ UNCHANGED storeEdits

\* Mutant: a command that was given a new name is given a new key, too.
Rekeyed(c) == [c EXCEPT !.slug = Slug[table][c.pair], !.key = <<c.device, Slug[table][c.pair]>>]

\* A known command takes the table's slug and keeps its key.
Refreshed(c) == [c EXCEPT !.slug = Slug[table][c.pair]]

\* register_commands: new commands get a key; two of them under one key refuse
\* the whole list.
RegisterCommands(d) ==
  LET found == Offers[table][rows.device[d].thing]
      known == {c \in CommandsOf(rows, d) : c.pair \in found}
      fresh == {[device |-> d, pair |-> p, key |-> <<d, Slug[table][p]>>, slug |-> Slug[table][p]] :
                  p \in found \ PairsOf(rows, d)}
      taken == {c.key : c \in CommandsOf(rows, d)}
      collision == \/ \E c \in fresh : c.key \in taken
                   \/ \E c, e \in fresh : c # e /\ c.key = e.key
      new == [rows EXCEPT
                !.command = (@ \ known) \cup {Refreshed(c) : c \in known} \cup fresh,
                !.device[d].changed = TRUE]
  IN  /\ Method
      /\ d \in Active(rows)
      /\ IF collision
           THEN RollsBack({}) /\ UNCHANGED storeFaults
           ELSE Guarded(new, GroupsWith(new, d))
      /\ UNCHANGED storeEdits

\* register_group_commands for one of the groups the running method affects.
\* A row that stays keeps its key and the user's tick.
Recompute(g) ==
  LET offered == Offered(rows, g)
      old == GroupCommandsOf(rows, g)
      stay == {c \in old : c.pair \in offered}
      Sample(p) == CHOOSE c \in rows.command :
                     /\ c.pair = p /\ c.device \in MembersOf(rows, g)
                     /\ \A d \in MembersOf(rows, g) : p \in PairsOf(rows, d) => c.device <= d
      SlugOf(p) == Sample(p).slug
      refreshed == {[c EXCEPT !.slug = SlugOf(c.pair)] : c \in stay}
      added == {[group |-> g, pair |-> p, key |-> <<"g", g, SlugOf(p)>>, slug |-> SlugOf(p),
                 exported |-> TRUE] : p \in offered \ {c.pair : c \in old}}
      others == (rows.groupCommand \ old) \cup stay \cup added
      collision == \E c \in added, e \in others : c # e /\ c.key = e.key
      new == [rows EXCEPT
                !.groupCommand = (@ \ old) \cup refreshed \cup added,
                !.changed[g] = @ \/ refreshed \cup added # old]
  IN  /\ g \in regroup
      /\ IF collision
           THEN RollsBack(regroup) /\ UNCHANGED storeFaults
           ELSE \/ /\ rows' = new /\ kept' = new
                   /\ regroup' = regroup \ {g}
                   /\ passedOver' = passedOver \ {g}
                   /\ UNCHANGED storeFaults
                \/ LeavesOpen(new, regroup)
                \/ WriteFails(regroup)
      /\ UNCHANGED <<marking, shot, table, storeEdits, delivered, undelivered>>

\* Mutant: the groups to recompute are asked for when the memberships are gone.
ForgetDeviceLate(d) ==
  /\ Method
  /\ d \in Active(rows)
  /\ LET new == [rows EXCEPT !.member = {m \in @ : m[2] # d}, !.device[d].active = FALSE]
     IN  Guarded(new, GroupsWith(new, d))
  /\ UNCHANGED storeEdits

\* forget_device: the row stays under its id, the memberships go.
ForgetDevice(d) ==
  /\ Method
  /\ d \in Active(rows)
  /\ Guarded([rows EXCEPT !.member = {m \in @ : m[2] # d}, !.device[d].active = FALSE],
             GroupsWith(rows, d))
  /\ UNCHANGED storeEdits

\* rename_device: one write.
RenameDevice(d) ==
  /\ Method
  /\ d \in Active(rows)
  /\ storeEdits < MaxStoreEdits /\ storeEdits' = storeEdits + 1
  /\ Unguarded([rows EXCEPT !.device[d].label = 1 - @, !.device[d].changed = TRUE])

\* set_title, set_exported and set_resend touch the device's row first and write
\* the signal's row second; the label stands for what they set.
SetTitle(d) ==
  /\ Method
  /\ d \in Active(rows)
  /\ storeEdits < MaxStoreEdits /\ storeEdits' = storeEdits + 1
  /\ \/ Unguarded([rows EXCEPT !.device[d].label = 1 - @, !.device[d].changed = TRUE])
     \/ LeavesOpen([rows EXCEPT !.device[d].changed = TRUE], {})

---------------------------------------------------------------------------
(* Groups                                                                  *)

CreateGroup(members) ==
  LET g == rows.lastGroup + 1
  IN  /\ Method
      /\ g <= MaxGroups
      /\ members # {} /\ members \subseteq Active(rows)
      /\ Guarded([rows EXCEPT !.group = @ \cup {g}, !.lastGroup = g,
                              !.member = @ \cup ({g} \X members)], {g})
      /\ UNCHANGED storeEdits

SetGroupMembers(g, members) ==
  /\ Method
  /\ g \in rows.group /\ members \subseteq Active(rows)
  /\ storeEdits < MaxStoreEdits /\ storeEdits' = storeEdits + 1
  /\ Guarded([rows EXCEPT !.member = {m \in @ : m[1] # g} \cup ({g} \X members),
                          !.changed[g] = TRUE], {g})

RenameGroup(g) ==
  /\ Method
  /\ g \in rows.group
  /\ storeEdits < MaxStoreEdits /\ storeEdits' = storeEdits + 1
  /\ Unguarded([rows EXCEPT !.label[g] = 1 - @, !.changed[g] = TRUE])

\* set_group_command_exported: the group's row first, the command's row second.
TickGroupCommand(c) ==
  /\ Method
  /\ c \in rows.groupCommand
  /\ storeEdits < MaxStoreEdits /\ storeEdits' = storeEdits + 1
  /\ \/ Unguarded([rows EXCEPT !.groupCommand = (@ \ {c}) \cup {[c EXCEPT !.exported = ~@]},
                               !.changed[c.group] = TRUE])
     \/ LeavesOpen([rows EXCEPT !.changed[c.group] = TRUE], {})

DeleteGroup(g) ==
  /\ Method
  /\ g \in rows.group
  /\ Guarded([rows EXCEPT !.group = @ \ {g}, !.member = {m \in @ : m[1] # g},
                          !.groupCommand = {c \in @ : c.group # g}], {})
  /\ UNCHANGED storeEdits

---------------------------------------------------------------------------
(* The export                                                              *)

\* download: the archive is built from what the store says of the devices asked
\* for and of every group, then they are marked one by one.
Download(devices) ==
  LET written == {x \in Exportable(rows) : x[1] = "device" => x[2] \in devices}
  IN  /\ MethodsIdle
      /\ written # {}
      /\ marking' = written
      /\ shot' = [x \in written |-> Content(rows, x)]
      /\ UNCHANGED <<rows, kept, regroup, table, storeFaults, storeEdits, passedOver, delivered, undelivered>>

\* All devices, or those with only_pending.  A single one is not asked for here.
Selections ==
  {Active(rows), {d \in Active(rows) : rows.device[d].changed}}

Marked(db, x) ==
  IF x[1] = "device" THEN [db EXCEPT !.device[x[2]].changed = FALSE]
                     ELSE [db EXCEPT !.changed[x[2]] = FALSE]

\* mark_exported and mark_group_exported, devices first; the response is sent
\* after the last of them.
MarkExported(x) ==
  /\ x \in marking
  /\ x[1] = "group" => \A y \in marking : y[1] = "group"
  /\ \/ /\ Commits(Marked(rows, x), {})
        /\ marking' = marking \ {x}
        /\ IF marking = {x}
             THEN /\ delivered' = [y \in DOMAIN delivered \cup DOMAIN shot |->
                                     IF y \in DOMAIN shot THEN shot[y] ELSE delivered[y]]
                  /\ undelivered' = undelivered \ DOMAIN shot
                  /\ shot' = <<>>
             ELSE UNCHANGED <<delivered, undelivered, shot>>
     \/ /\ LeavesOpen(Marked(rows, x), {})
        /\ marking' = {} /\ shot' = <<>>
        /\ undelivered' = undelivered \cup ((DOMAIN shot \ marking) \cup {x})
        /\ UNCHANGED delivered
  /\ UNCHANGED <<table, storeEdits>>

---------------------------------------------------------------------------
\* check_writable ends an open transaction that a failed method left behind.
CheckWritable ==
  /\ Method
  /\ rows # kept
  /\ RollsBack({})
  /\ UNCHANGED <<storeFaults, storeEdits>>

\* The process is killed, or stopped and started again, perhaps with an update.
Restart ==
  /\ storeFaults < MaxStoreFaults /\ storeFaults' = storeFaults + 1
  /\ rows' = kept
  /\ PassOver(regroup)
  /\ undelivered' = undelivered \cup (DOMAIN shot \ marking)
  /\ regroup' = {} /\ marking' = {} /\ shot' = <<>>
  /\ table' \in {table, table + 1} \cap Versions
  /\ UNCHANGED <<kept, storeEdits, delivered>>

StoreNext ==
  \/ \E t \in Things : RegisterDevice(t)
  \/ \E d \in DOMAIN rows.device :
       RegisterCommands(d) \/ ForgetDevice(d) \/ RenameDevice(d) \/ SetTitle(d)
  \/ \E g \in GroupIds : Recompute(g) \/ RenameGroup(g) \/ DeleteGroup(g)
  \/ \E members \in SUBSET (DOMAIN rows.device) :
       CreateGroup(members) \/ \E g \in GroupIds : SetGroupMembers(g, members)
  \/ \E c \in rows.groupCommand : TickGroupCommand(c)
  \/ \E devices \in Selections : Download(devices)
  \/ \E x \in marking : MarkExported(x)
  \/ CheckWritable
  \/ Restart

StoreSpec == StoreInit /\ [][StoreNext]_storeVars

---------------------------------------------------------------------------
(* Properties                                                              *)

StoreTypeOK ==
  /\ \A db \in {rows, kept} :
       /\ \A c \in db.command : c.device \in DOMAIN db.device
       /\ db.group \subseteq 1..db.lastGroup
  /\ regroup \subseteq GroupIds
  /\ MethodsIdle \/ regroup = {} \/ marking = {}

\* What a group offers follows its members: after every change of a membership
\* or of a member's commands the group's rows are the ones the rule names, and
\* none belongs to a removed group - unless the recomputation was cut off.
GroupsOfferTheirMembers ==
  \A db \in {rows, kept} :
    /\ regroup = {} => \A g \in db.group \ passedOver :
         {c.pair : c \in GroupCommandsOf(db, g)} = Offered(db, g)
    /\ \A c \in db.groupCommand : c.group \in db.group

\* A removed device is in no group, in memory or on the disk, whatever write
\* failed and whatever a later commit carried along (forget_device's guard).
NoForgottenMember ==
  \A db \in {rows, kept} : \A m \in db.member : m[1] \in db.group /\ db.device[m[2]].active

\* A key is the wiring in Loxone: it names one command only.
OneCommandPerKey ==
  \A db \in {rows, kept} :
    /\ \A c, e \in db.command : c.key = e.key => c = e
    /\ \A c, e \in db.groupCommand : c.key = e.key => c = e

\* What the export tab calls unchanged is what the user's last archive says of
\* it - unless a download marked it and failed before it was sent.
UnchangedIsDelivered ==
  MethodsIdle => \A x \in Exportable(rows) \ undelivered :
            ~ ChangedSinceExport(rows, x) =>
              x \in DOMAIN delivered /\ delivered[x] = Content(rows, x)

StoreSafe ==
  StoreTypeOK /\ GroupsOfferTheirMembers /\ NoForgottenMember /\ OneCommandPerKey
    /\ UnchangedIsDelivered

\* The comment of download says that no error leaves a device marked whose
\* template the client never received (api/export.py): not so if marking fails.
MarkedIsDelivered ==
  MethodsIdle => \A x \in Exportable(rows) :
            ~ ChangedSinceExport(rows, x) =>
              x \in DOMAIN delivered /\ delivered[x] = Content(rows, x)

\* A command the disk holds keeps its key and its meaning for ever, removed
\* devices included; a group's key goes only with the command or the group, or
\* when a failed recomputation is carried along by a later commit.
KeysAreKept ==
  [][ /\ \A c \in kept.command : \E e \in kept'.command :
           e.key = c.key /\ e.pair = c.pair /\ e.device = c.device
      /\ \A c \in kept.groupCommand :
           c.group \in kept'.group \ passedOver /\ c.pair \in Offered(kept', c.group) =>
             \E e \in kept'.groupCommand : e.key = c.key /\ e.pair = c.pair ]_storeVars
=============================================================================
