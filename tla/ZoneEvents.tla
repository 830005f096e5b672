----------------------------- MODULE ZoneEvents -----------------------------
(***************************************************************************)
(* From the zones of the configuration to the subjects of their events:    *)
(* Config.Build and NewZone (geofence/config.go, geometry.go), which check *)
(* the zones and give them slugs, then one call of Engine.emit             *)
(* (engine.go): the sorted names of the zones around two points, the merge *)
(* of ZoneSetDiff, and slugOf for every name it returns.                   *)
(***************************************************************************)
EXTENDS ZoneSetDiff, Subjects

CONSTANTS
    Spelling,       \* name |-> its text, in the order of the names
    ZoneConfig,     \* entries of the configuration: [name, vertices]
    Knob,           \* values of hysteresis and tag_ttl
    MaxZones        \* bound: zones in a configuration

ASSUME ZoneConfigAssumption ==
    /\ ZoneConfig \subseteq [name : Name, vertices : Nat]
    /\ Knob \subseteq Int /\ MaxZones \in Nat

\* ToLower makes no white space, wildcard or dot of any other character.
Character == DOMAIN Lower \cup Illegal \cup {"."}
ASSUME SpellingAssumption ==
    /\ Spelling \in [Name -> Seq(Character)]
    /\ \A c \in DOMAIN Lower : Lower[c] \notin Illegal \cup {"."}

VARIABLES
    config,         \* geofence.Config
    zones,          \* the zones built so far: [name, slug]
    phase,          \* of Run: "building", "refused", "built", "emitting"
    left, entered   \* the zones around the old and around the new position

configVars == <<config, zones, left, entered>>
zvars == <<vars, configVars, phase>>

\* Mutant: the names are left in the order of the configuration.
ContainsUnsorted(hits) ==
    LET order == CHOOSE o \in Bijection(1..Cardinality(hits), hits) :
                    \A k, l \in DOMAIN o : k < l => o[k] < o[l]
    IN  [k \in DOMAIN order |-> zones[order[k]].name]

contains(hits) ==
    LET order == CHOOSE o \in Bijection(1..Cardinality(hits), hits) :
                    \A k, l \in DOMAIN o :
                        k < l => zones[o[k]].name <= zones[o[l]].name
    IN  [k \in DOMAIN order |-> zones[order[k]].name]

slugOf(name) ==
    LET named == {k \in DOMAIN zones : zones[k].name = name}
    IN  IF named = {} THEN <<>> ELSE zones[Min(named)].slug
-----------------------------------------------------------------------------
ZoneInit ==
    /\ \E n \in 1..MaxZones :
          config \in [zones : [1..n -> ZoneConfig], hysteresis : Knob, tagTTL : Knob]
    /\ zones = <<>> /\ phase = "building"
    /\ left = {} /\ entered = {}
    /\ prev = <<>> /\ next = <<>> /\ i = 1 /\ j = 1
    /\ exits = <<>> /\ enters = <<>> /\ returned = TRUE

KnobsValid == config.hysteresis >= 0 /\ config.tagTTL >= 0
More == Len(zones) < Len(config.zones)
Entry == config.zones[Len(zones) + 1]
EntryName == Spelling[Entry.name]
EntrySlug == slugifyZoneName(EntryName)

\* NewZone takes the entry.
ZoneValid == ~ Blank(EntryName) /\ EntrySlug # <<>> /\ Entry.vertices >= 3

\* Mutant: only equal names are refused.
NameTaken == \E k \in DOMAIN zones : zones[k].name = Entry.name

\* Mutant: equal slugs are let through.
NeverTaken == FALSE

SlugTaken == \E k \in DOMAIN zones : zones[k].slug = EntrySlug

BuildRefuses ==
    /\ phase = "building"
    /\ KnobsValid => More /\ (~ ZoneValid \/ SlugTaken)
    /\ phase' = "refused"
    /\ UNCHANGED <<vars, configVars>>

BuildZone ==
    /\ phase = "building" /\ KnobsValid /\ More /\ ZoneValid /\ ~ SlugTaken
    /\ zones' = Append(zones, [name |-> Entry.name, slug |-> EntrySlug])
    /\ UNCHANGED <<vars, config, phase, left, entered>>

BuildReturns ==
    /\ phase = "building" /\ KnobsValid /\ ~ More
    /\ phase' = "built"
    /\ UNCHANGED <<vars, configVars>>

\* Engine.emit is called with the zones around two points.
Emit ==
    /\ phase = "built"
    /\ left' \in SUBSET DOMAIN zones /\ entered' \in SUBSET DOMAIN zones
    /\ prev' = contains(left') /\ next' = contains(entered')
    /\ returned' = FALSE
    /\ phase' = "emitting"
    /\ UNCHANGED <<config, zones, i, j, exits, enters>>

DiffStep ==
    /\ Next
    /\ UNCHANGED <<configVars, phase>>

ZoneNext == BuildRefuses \/ BuildZone \/ BuildReturns \/ Emit \/ DiffStep

ZoneSpec == ZoneInit /\ [][ZoneNext]_zvars
-----------------------------------------------------------------------------
\* Build accepts the configurations whose knobs are not negative, whose zones
\* have three vertices and a name that leaves a slug, and no two of which would
\* share one, and no others (geofence/config.go:47-50, geometry.go:51-61).
BuildDecides ==
    LET SlugAt(k) == slugifyZoneName(Spelling[config.zones[k].name])
        Good ==
            /\ config.hysteresis >= 0 /\ config.tagTTL >= 0
            /\ \A k \in DOMAIN config.zones :
                  /\ config.zones[k].vertices >= 3
                  /\ SlugAt(k) # <<>> /\ ~ Blank(Spelling[config.zones[k].name])
            /\ \A k, l \in DOMAIN config.zones : k # l => SlugAt(k) # SlugAt(l)
    IN  /\ phase = "refused" => ~ Good
        /\ phase \in {"built", "emitting"} =>
              Good /\ Len(zones) = Len(config.zones)

\* The merge is only ever given what it asks for: sorted names, none of them
\* twice, which is so because no two zones have the same slug (engine.go:149-159,
\* 202-203, geofence/config.go:69-72).
MergeInputsSorted == phase = "emitting" => {prev, next} \subseteq ZoneSets

\* The subjects of a move, without their prefix and tag: one event for each
\* zone left, then one for each entered.
Subjects ==
    [k \in DOMAIN exits |-> <<"exit", slugOf(exits[k])>>]
        \o [k \in DOMAIN enters |-> <<"enter", slugOf(enters[k])>>]

\* A subscriber to `<prefix>.*.*.<slug>' gets the events of that zone, one when
\* it is entered or left and none else, and the slug is one legal token
\* (README.md:200-217, engine.go:161-240).
SlugTellsZone ==
    phase = "emitting" /\ returned =>
        \A k \in DOMAIN zones :
            LET mine == {n \in DOMAIN Subjects : Subjects[n][2] = zones[k].slug}
            IN  /\ IsToken(zones[k].slug)
                /\ Cardinality(mine) = IF (k \in left) = (k \in entered) THEN 0 ELSE 1
                /\ \A n \in mine :
                      Subjects[n][1] = IF k \in entered THEN "enter" ELSE "exit"
-----------------------------------------------------------------------------
\* The inductive invariant: what is built are valid entries of the configuration
\* with different slugs, and emit has merged the names of two sets of them.
BuiltInv ==
    /\ Len(zones) <= Len(config.zones)
    /\ zones # <<>> => KnobsValid
    /\ \A k \in DOMAIN zones :
          LET entry == config.zones[k]
              text == Spelling[entry.name]
          IN  /\ zones[k] = [name |-> entry.name, slug |-> slugifyZoneName(text)]
              /\ zones[k].slug # <<>> /\ ~ Blank(text) /\ entry.vertices >= 3
    /\ \A k, l \in DOMAIN zones : k # l => zones[k].slug # zones[l].slug

EmitInv ==
    IF phase = "emitting"
    THEN /\ Range(prev) = {zones[k].name : k \in left}
         /\ Range(next) = {zones[k].name : k \in entered}
    ELSE /\ prev = <<>> /\ next = <<>> /\ i = 1 /\ j = 1
         /\ exits = <<>> /\ enters = <<>> /\ returned

Slug == {slugifyZoneName(Spelling[n]) : n \in Name}

ZoneTypeOK ==
    /\ config.zones \in Seq(ZoneConfig)
    /\ config.hysteresis \in Knob /\ config.tagTTL \in Knob
    /\ zones \in Seq([name : Name, slug : Slug])
    /\ phase \in {"building", "refused", "built", "emitting"}
    /\ left \subseteq DOMAIN zones /\ entered \subseteq DOMAIN zones

ZoneInv == ZoneTypeOK /\ BuiltInv /\ EmitInv /\ DiffInv /\ BuildDecides
=============================================================================
