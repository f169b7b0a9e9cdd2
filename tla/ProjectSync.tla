---------------------------- MODULE ProjectSync ----------------------------
(***************************************************************************)
(* The comparison and patching of a Loxone project file (projectsync/,     *)
(* api/project_sync.py): the user uploads the file, the bridge compares it *)
(* with the devices and groups it exports, and hands back the same file    *)
(* with the missing virtual inputs and outputs added and the changed ones  *)
(* corrected.  The user opens it in Loxone Config, goes on editing, and    *)
(* comes back with it after the next change in the house.                  *)
(*                                                                         *)
(* A file is a sequence of Miniservers, each with its captions of virtual  *)
(* inputs ("in") and outputs ("out"); a caption holds boxes, a box holds   *)
(* commands.  Positions in the text are positions in these sequences, an   *)
(* edit at the end of an element appends to its sequence.  `room' of a     *)
(* command is the place its <IoData> names, 0 without one; the identifiers *)
(* new_unique_id and new_iname draw are not in the model.                  *)
(***************************************************************************)
EXTENDS Naturals, FiniteSets, Sequences, SequencesExt

CONSTANTS
    SyncDevices, Groups,    \* sequences: the order in which the store lists them
    RoomNames,          \* pairs <<key, spelling>>: room_key is the first half
    Files, Houses,      \* what the user and the bridge start from
    Nowhere, NoIp, NoName, Odd, Absent,
    MaxFileEdits, MaxSyncs

VARIABLES
    file,       \* [lives, places, placesOpen, rights, next]
    house,      \* per device or group: [there, signals, commands, room, rev]
    chosenIp,   \* the Miniserver's address stored in the settings
    synced,     \* the Miniserver the last sync patched, 0 after any edit
    fileEdits, syncs

Items == {"level", "press", "press_n", "online", "pair", "on", "off"}
CmdKinds == {"in", "out"}
Texts == STRING \cup Items      \* STRING: provers know no literal in it
Commands == [owner : Texts, name : Texts, off : Texts, title : Texts,
             value : Nat \cup {Absent}, room : Nat]
\* A caption that closes itself (not `open') holds nothing.
Captions == [open : {TRUE}, boxes : Seq(Seq(Commands))] \cup {[open |-> FALSE, boxes |-> <<>>]}
Miniservers == [ip : STRING, open : BOOLEAN, caps : [CmdKinds -> Seq(Captions)]]
Projects == [lives : Seq(Miniservers), places : Seq(STRING \X STRING), placesOpen : BOOLEAN,
             rights : BOOLEAN, next : Nat]
Exports == [there : BOOLEAN, signals : SUBSET {"level", "press"}, commands : SUBSET {"on", "off"},
            room : (STRING \X STRING) \cup {Nowhere}, rev : {0, 1}]

Owners == SyncDevices \o Groups

\* What identifies a device or group is its own, no item is called as nothing
\* is, and what is missing is not a value.
ASSUME SyncAssumption ==
    /\ SyncDevices \in Seq(STRING) /\ Groups \in Seq(STRING)
    /\ \A m, n \in DOMAIN Owners : Owners[m] = Owners[n] => m = n
    /\ RoomNames \subseteq STRING \X STRING /\ Nowhere \notin STRING \X STRING
    /\ Files \subseteq Projects /\ Houses \subseteq [ToSet(Owners) -> Exports]
    /\ NoName \in STRING \ Items /\ Odd \in STRING /\ Absent \notin Nat

syncVars == <<file, house, chosenIp, synced, fileEdits, syncs>>

\* The members of a set, in the order of the sequence.
Those(s, P) == FlattenSeq([n \in DOMAIN s |-> IF s[n] \in P THEN <<s[n]>> ELSE <<>>])
Signals == <<"level", "press">>

----------------------------------------------------------------------------
(* What the bridge wants in the file                                       *)

\* to_inputs: an event signal gives the pulse and its counter, and every
\* device ends with its online signal.
Inputs(export) ==
    LET exported == Those(Signals, export.signals)
        Emits(s) == IF s = "press" THEN <<"press", "press_n">> ELSE <<s>>
    IN  FlattenSeq([i \in DOMAIN exported |-> Emits(exported[i])])
          \o <<"online">>

\* _to_outputs: on and off, exported both, are also offered as one pair.
Outputs(export) ==
    Those(<<"pair", "on", "off">>,
          export.commands \cup (IF {"on", "off"} \subseteq export.commands THEN {"pair"} ELSE {}))

Wants(k, o) ==
    CASE ~house[o].there -> <<>>
      [] k = "out" -> Outputs(house[o])
      [] o \in ToSet(SyncDevices) -> Inputs(house[o])
      [] OTHER -> <<>>

----------------------------------------------------------------------------
(* The index of the file                                                   *)

\* Mutant: the key is read from the path for On alone.
KeyOfOn(cmd) ==
    IF cmd.name = NoName THEN <<NoName, NoName>> ELSE <<cmd.owner, cmd.name>>

\* key_from_check, key_from_output_cmd: the key is read from the attributes;
\* an output with a second path of the bridge is the pair.
KeyOf(cmd) ==
    IF cmd.name = NoName THEN <<NoName, NoName>>
    ELSE <<cmd.owner, IF cmd.off = NoName THEN cmd.name ELSE "pair">>

Caps(l, k) == file.lives[l].caps[k]

\* Only the first caption of its kind is read.
Boxes(caps) == IF caps = <<>> THEN <<>> ELSE caps[1].boxes

\* Every command with a key, and where it stands.
Keyed(boxes) ==
    {e \in UNION {{[box |-> b, pos |-> n, cmd |-> boxes[b][n]] : n \in DOMAIN boxes[b]} :
                     b \in DOMAIN boxes} :
       e.cmd.name # NoName}

Before(d, e) == d.box < e.box \/ (d.box = e.box /\ d.pos < e.pos)
SameKey(d, e) == KeyOf(d.cmd) = KeyOf(e.cmd)

\* Of two commands with one key the later is in the index.
Index(boxes) ==
    LET all == Keyed(boxes)
    IN  {e \in all : \A d \in all : ~(Before(e, d) /\ SameKey(e, d))}

OwnedBy(o, es) == {e \in es : KeyOf(e.cmd)[1] = o}

\* The box a new command of the owner goes to: where the first of its keys
\* is indexed.
BoxFor(boxes, o) ==
    LET own   == OwnedBy(o, Keyed(boxes))
        first == CHOOSE e \in own : \A d \in own : ~Before(d, e)
    IN  (CHOOSE e \in Index(boxes) : SameKey(e, first)).box

----------------------------------------------------------------------------
(* The plan                                                                *)

\* _has_required_attrs: an output without Analog gets it back, an input
\* without it is left alone.
HasRequired(k, cmd) == cmd.title # NoName /\ (k = "in" => cmd.value # Absent)

Status(index, k, o, i) ==
    LET own   == OwnedBy(o, index)
        there == {e \in own : KeyOf(e.cmd)[2] = i}
        cmd   == (CHOOSE e \in there : TRUE).cmd
    IN  IF there # {}
        THEN CASE ~HasRequired(k, cmd) -> "conflict"
               [] HasRequired(k, cmd) /\ cmd.value # house[o].rev -> "updated"
               [] OTHER -> "unchanged"
        ELSE CASE own = {} -> "new_device"
               [] \E e \in own : e.cmd.title = i -> "possible_duplicate"
               [] OTHER -> "new_signal"

\* build_plan without what is orphaned, which is only shown.
SyncPlan(l) ==
    UNION {UNION {LET index == Index(Boxes(Caps(l, k)))
                  IN  {[kind |-> k, owner |-> o, item |-> i, status |-> Status(index, k, o, i)] :
                         i \in ToSet(Wants(k, o))}
                  : k \in CmdKinds} : o \in ToSet(Owners)}

With(plan, k, o, statuses) ==
    Those(Wants(k, o), {i \in Items : \E e \in plan :
                          e.kind = k /\ e.owner = o /\ e.item = i /\ e.status \in statuses})
NewOf(plan, k, o) == With(plan, k, o, {"new_signal", "new_device"})

\* The owners with something new, in the order of the plan.
Asking(plan) ==
    Those(Owners, {o \in DOMAIN house :
      /\ house[o].room # Nowhere
      /\ \E e \in plan : e.owner = o /\ e.status \in {"new_signal", "new_device"}})

\* Mutant: one room for every owner that asks, not one per key.
RoomsToCreateEach(plan) ==
    LET asking == SelectSeq(Asking(plan), LAMBDA o :
                    \A x \in DOMAIN file.places : file.places[x][1] # house[o].room[1])
    IN  IF ~file.placesOpen THEN <<>>
        ELSE [j \in DOMAIN asking |-> house[asking[j]].room]

\* assign_rooms: the rooms of the owners with something new, one per key,
\* that the file lacks and has a place for.
RoomsToCreate(plan) ==
    LET asking == Asking(plan)
        Key(n) == house[asking[n]].room[1]
        order  == Those([n \in DOMAIN asking |-> n], {n \in DOMAIN asking :
                    /\ \A m \in 1..(n - 1) : Key(m) # Key(n)
                    /\ \A x \in DOMAIN file.places : file.places[x][1] # Key(n)})
    IN  IF ~file.placesOpen THEN <<>>
        ELSE [j \in DOMAIN order |-> house[asking[order[j]]].room]

----------------------------------------------------------------------------
(* The patch                                                               *)

\* The place of the owner's room: the first of several, none if the file has
\* none and cannot have it.
PlaceOf(places, o) ==
    LET named == {x \in DOMAIN places :
                    house[o].room # Nowhere /\ places[x][1] = house[o].room[1]}
    IN  IF named = {} THEN 0 ELSE CHOOSE x \in named : \A y \in named : x <= y

\* new_cmd_children_xml: the owner's place, else the <IoData> of a neighbour.
NewCmd(places, o, i, neighbour) ==
    [owner |-> o,
     name  |-> IF i = "pair" THEN "on" ELSE i,
     off   |-> IF i = "pair" THEN "off" ELSE NoName,
     title |-> i, value |-> house[o].rev,
     room  |-> IF PlaceOf(places, o) # 0 THEN PlaceOf(places, o) ELSE neighbour]

NewCmds(plan, places, k, o, neighbour) ==
    LET new == NewOf(plan, k, o)
    IN  [n \in DOMAIN new |-> NewCmd(places, o, new[n], neighbour)]

\* Mutant: an update also puts the generated title back.
UpdatedTitle(cmd) ==
    [cmd EXCEPT !.value = house[KeyOf(cmd)[1]].rev, !.title = KeyOf(cmd)[2]]

\* _update_edits: the managed attributes and nothing else.
Updated(cmd) == [cmd EXCEPT !.value = house[KeyOf(cmd)[1]].rev]

\* _new_signal_edit, _update_edits: a box after the plan.  All its new
\* commands are put at one place, each before those put there earlier.
Grown(boxes, k, plan, places, b) ==
    LET box   == boxes[b]
        stale == {e \in Index(boxes) :
                    /\ e.box = b
                    /\ \E d \in plan : /\ d.kind = k /\ d.status = "updated"
                                       /\ KeyOf(e.cmd) = <<d.owner, d.item>>}
        Added(o) == IF OwnedBy(o, Keyed(boxes)) = {} \/ BoxFor(boxes, o) # b THEN <<>>
                    ELSE NewCmds(plan, places, k, o, box[1].room)
    IN  [n \in DOMAIN box |-> IF \E e \in stale : e.pos = n THEN Updated(box[n]) ELSE box[n]]
          \o Reverse(FlattenSeq([n \in DOMAIN Owners |-> Added(Owners[n])]))

\* find_any_iodata_attrs: the first <IoData> in the caption.
AnyRoom(boxes) ==
    LET rooms == Those(FlattenSeq(boxes), {cmd \in Commands : cmd.room # 0})
    IN  IF rooms = <<>> THEN 0 ELSE rooms[1].room

\* _new_device_edit: a box for every owner that has none.
Newcomers(plan, k) ==
    Those(Owners, {o \in DOMAIN house : With(plan, k, o, {"new_device"}) # <<>>})
NewBoxes(boxes, k, plan, places) ==
    LET newcomers == Newcomers(plan, k)
    IN  [n \in DOMAIN newcomers |-> NewCmds(plan, places, k, newcomers[n], AnyRoom(boxes))]

TakesBoxes(caps) == caps # <<>> /\ caps[1].open

\* The captions after the plan: the new boxes at the end of the first
\* caption, the last one first; without a caption that can take them every
\* box gets a caption of its own.
Patched(caps, k, plan, places) ==
    LET boxes == Boxes(caps)
        added == Reverse(NewBoxes(boxes, k, plan, places))
    IN  IF TakesBoxes(caps)
        THEN [caps EXCEPT ![1].boxes =
                [b \in DOMAIN boxes |-> Grown(boxes, k, plan, places, b)] \o added]
        ELSE caps \o [n \in DOMAIN added |-> [open |-> TRUE, boxes |-> <<added[n]>>]]

\* Mutant: the caption of a new device is not counted.
CreatedCountBoxes(l, plan) ==
    LET Boxed(k) == Len(Newcomers(plan, k))
    IN  Cardinality({e \in plan : e.status \in {"new_signal", "new_device"}})
          + Boxed("in") + Boxed("out")
          + Len(RoomsToCreate(plan)) * (IF file.rights THEN 2 ELSE 1)

\* What the plan adds, for NextObj: commands, boxes with the captions they
\* bring, and rooms with their right group.
CreatedCount(l, plan) ==
    LET Boxed(k) == Len(Newcomers(plan, k)) * (IF TakesBoxes(Caps(l, k)) THEN 1 ELSE 2)
    IN  Cardinality({e \in plan : e.status \in {"new_signal", "new_device"}})
          + Boxed("in") + Boxed("out")
          + Len(RoomsToCreate(plan)) * (IF file.rights THEN 2 ELSE 1)

ApplyPlan(l, plan) ==
    LET places == file.places \o RoomsToCreate(plan)
    IN  [file EXCEPT !.lives[l].caps = [k \in CmdKinds |-> Patched(Caps(l, k), k, plan, places)],
                     !.places = places,
                     !.next = @ + CreatedCount(l, plan)]

----------------------------------------------------------------------------
(* The upload                                                              *)

\* _resolve_target_loxlive: the first Miniserver with the address, or the
\* only one; 0 is AmbiguousMiniserverError.
Resolve(ip) ==
    LET matching == {l \in DOMAIN file.lives : file.lives[l].ip = ip}
    IN  IF ip = NoIp THEN (IF Len(file.lives) = 1 THEN 1 ELSE 0)
        ELSE IF matching = {} THEN 0
        ELSE CHOOSE l \in matching : \A m \in matching : l <= m

\* Mutant: an address that is not in the file falls back to the first one.
TargetOrFirst(asked) ==
    IF Resolve(asked) = 0 /\ file.lives # <<>> THEN 1 ELSE Resolve(asked)

\* project_sync: without an address in the request the stored one decides,
\* where the file is ambiguous and has it.
Target(asked) ==
    IF Resolve(asked) = 0 /\ asked = NoIp /\ chosenIp # NoIp
    THEN Resolve(chosenIp) ELSE Resolve(asked)

Sync(asked) ==
    LET l == Target(asked)
    IN  /\ syncs < MaxSyncs
        /\ syncs' = syncs + 1
        /\ IF l # 0 /\ file.lives[l].open
           THEN file' = ApplyPlan(l, SyncPlan(l)) /\ synced' = l
           ELSE UNCHANGED <<file, synced>>
        /\ UNCHANGED <<house, chosenIp, fileEdits>>

----------------------------------------------------------------------------
(* The user in Loxone Config, and the house                                *)

FileEdits == fileEdits < MaxFileEdits /\ fileEdits' = fileEdits + 1 /\ synced' = 0 /\ UNCHANGED syncs

PutsBox(k, b, box) == file' = [file EXCEPT !.lives[1].caps[k][1].boxes[b] = box]

\* A command is retitled, its title or a managed value lost, its value
\* changed, its key broken, a second path entered, or it is deleted.
Spoiled(k, cmd) ==
    {[cmd EXCEPT !.title = t] : t \in {Odd, NoName}}
      \cup {[cmd EXCEPT !.value = v] : v \in {2, Absent}}
      \cup {[cmd EXCEPT !.name = n] : n \in {Odd, NoName}}
      \cup {[cmd EXCEPT !.off = IF k = "out" /\ cmd.name = "on" THEN "off" ELSE NoName]}

EditsCmd(k) ==
    /\ FileEdits /\ file.lives # <<>>
    /\ \E b \in DOMAIN Boxes(Caps(1, k)) : \E c \in DOMAIN Boxes(Caps(1, k))[b] :
         \/ \E cmd \in Spoiled(k, Boxes(Caps(1, k))[b][c]) : PutsBox(k, b, [Boxes(Caps(1, k))[b] EXCEPT ![c] = cmd])
         \/ PutsBox(k, b, RemoveAt(Boxes(Caps(1, k))[b], c))
    /\ UNCHANGED <<house, chosenIp>>

\* A box is copied with its commands, or a whole caption emptied, which
\* Loxone Config writes as an element that closes itself.
EditsBoxes(k) ==
    /\ FileEdits /\ file.lives # <<>>
    /\ Caps(1, k) # <<>>
    /\ \/ \E b \in DOMAIN Boxes(Caps(1, k)) :
            file' = [file EXCEPT !.lives[1].caps[k][1].boxes = Append(@, Boxes(Caps(1, k))[b])]
       \/ file' = [file EXCEPT !.lives[1].caps[k][1] = [open |-> FALSE, boxes |-> <<>>]]
    /\ UNCHANGED <<house, chosenIp>>

\* A device or a group comes or goes, its exported signals and commands, its
\* room, or what it writes for them change; a device that went for good
\* comes back as another one, so an owner's key is never used again.
ChangesHouse ==
    /\ FileEdits
    /\ \E o \in ToSet(Owners), r \in RoomNames \cup {Nowhere}, s \in ToSet(Signals), c \in {"on", "off"} :
         house' \in {[house EXCEPT ![o].there = ~@],
                     [house EXCEPT ![o].room = r],
                     [house EXCEPT ![o].signals = SymDiff(@, {s})],
                     [house EXCEPT ![o].commands = SymDiff(@, {c})],
                     [house EXCEPT ![o].rev = 1 - @]}
    /\ UNCHANGED <<file, chosenIp>>

Selects ==
    /\ FileEdits
    /\ chosenIp' \in {file.lives[l].ip : l \in DOMAIN file.lives} \ {chosenIp}
    /\ UNCHANGED <<file, house>>

----------------------------------------------------------------------------
SyncInit ==
    /\ file \in Files
    /\ house \in Houses
    /\ chosenIp = NoIp
    /\ synced = 0 /\ fileEdits = 0 /\ syncs = 0

AskedIps == {NoIp} \cup {file.lives[l].ip : l \in DOMAIN file.lives}

SyncNext ==
    \/ \E ip \in AskedIps : Sync(ip)
    \/ \E k \in CmdKinds : EditsCmd(k) \/ EditsBoxes(k)
    \/ ChangesHouse \/ Selects

SyncSpec == SyncInit /\ [][SyncNext]_syncVars

----------------------------------------------------------------------------
(* Properties                                                              *)

\* A second sync of the file as the first one left it creates and corrects
\* nothing: what the bridge writes it recognises (the claim of
\* test_patched_file_is_stable_when_synced_again).
SecondPassIsClean ==
    synced # 0 =>
      \A e \in SyncPlan(synced) : e.status \notin {"updated", "new_signal", "new_device"}

\* The same while every kind has one caption and that takes new boxes: the
\* index reads no other (index.py:224, 227).
SecondPassIsCleanInOne ==
    \/ SecondPassIsClean
    \/ \E k \in CmdKinds : \/ Len(Caps(synced, k)) > 1
                           \/ Caps(synced, k) # <<>> /\ ~TakesBoxes(Caps(synced, k))

\* Where the captions have boxes and commands, and which command stands there.
BoxesAt(caps) == UNION {{<<c, b>> : b \in DOMAIN caps[c].boxes} : c \in DOMAIN caps}
CmdsAt(caps) ==
    UNION {{<<x[1], x[2], n>> : n \in DOMAIN caps[x[1]].boxes[x[2]]} : x \in BoxesAt(caps)}
CmdAt(caps, x) == caps[x[1]].boxes[x[2]][x[3]]
Named(caps, key) == {x \in CmdsAt(caps) : KeyOf(CmdAt(caps, x)) = key}

\* What stood in the file is still there after a sync, in its place: no
\* caption, box, command or room goes or moves, a command keeps all but the
\* values the bridge manages, and one the bridge does not want stays as it
\* is (_apply_edits, _update_edits).
StillThere(f) ==
    /\ IsPrefix(file.places, f.places)
    /\ \A l \in DOMAIN file.lives, k \in CmdKinds :
         LET old == file.lives[l].caps[k]
             new == f.lives[l].caps[k]
         IN  /\ DOMAIN old \subseteq DOMAIN new
             /\ BoxesAt(old) \subseteq BoxesAt(new)
             /\ CmdsAt(old) \subseteq CmdsAt(new)
             /\ \A x \in CmdsAt(old) :
                  LET cmd == CmdAt(old, x)
                  IN  \/ CmdAt(new, x) = cmd
                      \/ /\ KeyOf(cmd)[2] \in ToSet(Wants(k, KeyOf(cmd)[1]))
                         /\ CmdAt(new, x) = [cmd EXCEPT !.value = house[KeyOf(cmd)[1]].rev]
KeepsWhatStood == [][file' = file \/ syncs' = syncs \/ StillThere(file')]_syncVars

\* A sync writes every wanted key once where the first caption has it not,
\* and never a second time where it is there (_plan_inputs, _plan_outputs).
WrittenOnce(f, l) ==
    \A k \in CmdKinds : \A o \in ToSet(Owners) : \A i \in ToSet(Wants(k, o)) :
      LET old == file.lives[l].caps[k]
          was == Named(old, <<o, i>>)
          is  == Named(f.lives[l].caps[k], <<o, i>>)
      IN  \/ is = was
          \/ /\ ~ \E e \in Index(Boxes(old)) : KeyOf(e.cmd) = <<o, i>>
             /\ \E x \in is : is = was \cup {x}
WritesOnce == [][file' = file \/ syncs' = syncs \/ WrittenOnce(file', synced')]_syncVars

\* The objects of the file a sync may add to.
Objects(f, l) ==
    LET Of(k) == Len(f.lives[l].caps[k]) + Cardinality(BoxesAt(f.lives[l].caps[k]))
                   + Cardinality(CmdsAt(f.lives[l].caps[k]))
    IN  Of("in") + Of("out") + Len(f.places) * (IF f.rights THEN 2 ELSE 1)

\* NextObj rises by what a sync adds to the file, or Loxone Config would give
\* a number twice (_next_obj_edit).
Counted(f, l) == f.next + Objects(file, l) = file.next + Objects(f, l)
NextObjCounts == [][file' = file \/ syncs' = syncs \/ Counted(file', synced')]_syncVars

\* A room is created where the file has none of that name, once for all who
\* ask for it, and a new command lies in its owner's room unless the file has
\* none such and cannot have it (rooms.py, _room_edits).
RoomsRight(f, l) ==
    /\ \A x \in DOMAIN f.places \ DOMAIN file.places :
         \A y \in DOMAIN f.places \ {x} : f.places[y][1] # f.places[x][1]
    /\ \A k \in CmdKinds :
         LET now == f.lives[l].caps[k]
         IN  \A x \in CmdsAt(now) \ CmdsAt(file.lives[l].caps[k]) :
               LET new  == CmdAt(now, x)
                   room == house[new.owner].room
               IN  \/ room = Nowhere
                   \/ /\ ~file.placesOpen
                      /\ \A y \in DOMAIN file.places : file.places[y][1] # room[1]
                   \/ new.room \in DOMAIN f.places /\ f.places[new.room][1] = room[1]
RoomsOnce == [][file' = file \/ syncs' = syncs \/ RoomsRight(file', synced')]_syncVars

\* With several Miniservers in the file only the one the request names is
\* touched, or, where it names none, the stored one (project_sync).
AskedMiniserverOnly ==
    [][\A ip \in AskedIps, l \in DOMAIN file.lives :
         \/ file'.lives[l] = file.lives[l] \/ syncs' = syncs
         \/ Len(file.lives) = 1
         \/ ~Sync(ip)
         \/ file.lives[l].ip = (IF ip = NoIp THEN chosenIp ELSE ip)
      ]_syncVars

\* The types.
SyncTypeOK ==
    /\ file \in Projects /\ house \in [ToSet(Owners) -> Exports]
    /\ synced \in 0..Len(file.lives)

SyncSafe == []SyncTypeOK /\ []SecondPassIsCleanInOne /\ KeepsWhatStood /\ WritesOnce
              /\ NextObjCounts /\ RoomsOnce /\ AskedMiniserverOnly
=============================================================================
