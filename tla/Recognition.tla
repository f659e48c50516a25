----------------------------- MODULE Recognition -----------------------------
(***************************************************************************)
(* Which profile a device gets that nobody has assigned one to: the scores *)
(* of rustiio-profiles/src/matcher.rs, the record that its requests leave  *)
(* (capture.rs), the profile that a page makes from that record            *)
(* (api/profiles.rs, save), rules that a user sets, and the reload that    *)
(* puts the user's files over the built-in profiles in the order of a      *)
(* directory.  How these handlers overlap is Profiles.tla.                 *)
(*                                                                         *)
(* Texts are names; only their length and which occurs in which matter.    *)
(***************************************************************************)
EXTENDS Naturals, Sequences, FiniteSets, FiniteSetsExt, Functions

CONSTANTS
  Texts,           \* what devices say of themselves, and what rules look for
  Long,            \* text -> its characters
  Within,          \* the pairs <<rule, text>> in which the rule occurs, capitals aside
  Addresses,
  LocalAddresses,  \* 127.x and ::1
  Identities,      \* what the requests carry
  Shipped,         \* builtin::load, in its order
  UserIds,         \* the ids under which pages save profiles made from a device
  MaxProfileSaves  \* bound on saves

Rules == [ip : SUBSET Addresses, agent : SUBSET Texts, name : SUBSET Texts, type : SUBSET Texts]
ProfileIds == UserIds \cup {Shipped[i].id : i \in DOMAIN Shipped} \cup {"generic"}
Profile == [id : ProfileIds, rules : Rules]
AtMostOne == {S \in SUBSET Texts : \A a, b \in S : a = b}
Identity == [ip : Addresses, agent : AtMostOne, name : AtMostOne, type : AtMostOne]

NoRules == [ip |-> {}, agent |-> {}, name |-> {}, type |-> {}]

ASSUME RecognitionAssumption ==
  /\ IsFiniteSet(Texts) /\ Long \in [Texts -> Nat] /\ Within \subseteq Texts \X Texts
  /\ \A t \in Texts : <<t, t>> \in Within
  /\ Identities \subseteq Identity
  /\ IsFiniteSet(UserIds) /\ Shipped \in Seq(Profile) /\ MaxProfileSaves \in Nat
  /\ \A i \in DOMAIN Shipped : Shipped[i].rules = NoRules => Shipped[i].id = "generic"

VARIABLES
  userFiles,      \* id -> the profile in its file
  profileList,    \* ProfileSet::profiles
  deviceRecords,  \* Capture: key -> [agent, name, by]
  savedFor,       \* id -> the record it was made from, while its rules stand (history)
  profileSaves

recognitionVars == <<userFiles, profileList, deviceRecords, savedFor, profileSaves>>

-----------------------------------------------------------------------------
(* Scores.                                                                 *)

\* Profile::default, as ProfileSet::new finds no other without rules.  The
\* list has a profile with this id too, but it is this one that unknown
\* devices get, whatever a user makes of the other.
Generic == [id |-> "generic", rules |-> NoRules]

AtMost(n, limit) == IF n < limit THEN n ELSE limit

\* specificity: a point for every four characters.
Specificity(rule, max) == AtMost(Long[rule] \div 4, max)

Matched(said, rules) == {r \in rules : \E t \in said : <<r, t>> \in Within}

SumOfRules(said, rules, base, max) ==
  MapThenSumSet(LAMBDA r : base + Specificity(r, max), Matched(said, rules))

\* best_rule_score: the strongest rule counts, and a little how many there are.
BestRuleScore(said, rules, base, max) ==
  LET matched == Matched(said, rules)
  IN  IF matched = {} THEN 0
      ELSE Max({base + Specificity(r, max) : r \in matched}) + AtMost(Cardinality(matched), 3)

AddressCountsHalf(p, v) == IF v.ip \in p.rules.ip THEN 50 ELSE 0
AddressScore(p, v) == IF v.ip \in p.rules.ip THEN 100 ELSE 0

Score(p, v) ==
  AddressScore(p, v) + BestRuleScore(v.agent, p.rules.agent, 20, 25)
    + BestRuleScore(v.name, p.rules.name, 10, 15) + BestRuleScore(v.type, p.rules.type, 8, 10)

\* The first of the best in list.
IsBest(list, v, i) ==
  /\ Score(list[i], v) > 0
  /\ \A j \in DOMAIN list :
       /\ Score(list[j], v) <= Score(list[i], v)
       /\ j < i => Score(list[j], v) < Score(list[i], v)

Identify(list, v) ==
  IF \A i \in DOMAIN list : Score(list[i], v) = 0 THEN Generic
  ELSE list[CHOOSE i \in DOMAIN list : IsBest(list, v, i)]

-----------------------------------------------------------------------------
(* Requests and pages.                                                     *)

\* DeviceIdentity::key: the address tells devices apart, but not on this host.
DeviceKey(v) ==
  IF v.ip \notin LocalAddresses THEN <<"ip", v.ip>>
  ELSE IF v.agent # {} THEN <<"ua", CHOOSE t \in v.agent : TRUE>>
  ELSE IF v.name # {} THEN <<"name", CHOOSE t \in v.name : TRUE>>
  ELSE <<"ip", v.ip>>

NoRecord == [agent |-> {}, name |-> {}, by |-> "generic"]

RecognitionInit ==
  /\ userFiles = << >> /\ profileList = Shipped
  /\ deviceRecords = << >> /\ savedFor = << >> /\ profileSaves = 0

\* Capture::record keeps what an earlier request said and this one does not.
Calls(v) ==
  LET k == DeviceKey(v)
      old == IF k \in DOMAIN deviceRecords THEN deviceRecords[k] ELSE NoRecord
      new == [agent |-> IF v.agent # {} THEN v.agent ELSE old.agent,
              name |-> IF v.name # {} THEN v.name ELSE old.name,
              by |-> Identify(profileList, v).id]
  IN  /\ deviceRecords' = [d \in DOMAIN deviceRecords \cup {k} |->
                             IF d = k THEN new ELSE deviceRecords[d]]
      /\ UNCHANGED <<userFiles, profileList, savedFor, profileSaves>>

\* A file replaces the built-in profile of its id; the others follow in the
\* order in which the directory is read.
Overlay(files) ==
  [i \in DOMAIN Shipped |->
     IF Shipped[i].id \in DOMAIN files THEN files[Shipped[i].id] ELSE Shipped[i]]
ShippedIds == {Shipped[i].id : i \in DOMAIN Shipped}
Loads(files) ==
  LET own == DOMAIN files \ ShippedIds
      places == 1 .. Cardinality(own)
  IN  {Overlay(files) \o [n \in places |-> files[order[n]]] : order \in Bijection(places, own)}

\* A handler writes or removes a file and reloads.
Reloads(files) == userFiles' = files /\ profileList' \in Loads(files)

With(files, p) == [id \in DOMAIN files \cup {p.id} |-> IF id = p.id THEN p ELSE files[id]]
NoLonger(f, id) == [k \in DOMAIN f \ {id} |-> f[k]]

\* ProfileSet::get
Find(id) ==
  IF \E i \in DOMAIN profileList : profileList[i].id = id
  THEN profileList[CHOOSE i \in DOMAIN profileList : profileList[i].id = id]
  ELSE Generic

\* Capture::profile_toml over the profile that the device was last given.
ProfileToml(record, id) ==
  LET base == Find(record.by)
  IN  [id |-> id,
       rules |-> [ip |-> {}, agent |-> record.agent, type |-> base.rules.type,
                  name |-> IF record.name # {} THEN record.name ELSE base.rules.name]]

SavesFromDevice(k, id) ==
  /\ profileSaves < MaxProfileSaves /\ profileSaves' = profileSaves + 1
  /\ Reloads(With(userFiles, ProfileToml(deviceRecords[k], id)))
  /\ savedFor' = [i \in DOMAIN savedFor \cup {id} |->
                    IF i = id THEN deviceRecords[k] ELSE savedFor[i]]
  /\ UNCHANGED deviceRecords

\* api_profile_create: a copy of a profile, without its rules, under a free id.
CreatesCopy(id) ==
  /\ profileSaves < MaxProfileSaves /\ profileSaves' = profileSaves + 1
  /\ id \notin DOMAIN userFiles \cup {profileList[i].id : i \in DOMAIN profileList}
  /\ Reloads(With(userFiles, [id |-> id, rules |-> NoRules]))
  /\ UNCHANGED <<deviceRecords, savedFor>>

\* api_profile_save: the page binds a profile to an address.
BindsToAddress(id, address) ==
  /\ profileSaves < MaxProfileSaves /\ profileSaves' = profileSaves + 1
  /\ \E i \in DOMAIN profileList :
       /\ profileList[i].id = id
       /\ Reloads(With(userFiles, [id |-> id,
                         rules |-> [profileList[i].rules EXCEPT !.ip = {address}]]))
  /\ UNCHANGED <<deviceRecords, savedFor>>

\* api_profile_reset, api_profile_delete
RemovesProfile(id) ==
  /\ id \in DOMAIN userFiles
  /\ Reloads(NoLonger(userFiles, id))
  /\ savedFor' = NoLonger(savedFor, id)
  /\ UNCHANGED <<deviceRecords, profileSaves>>

\* api_profiles_reload, and api_profile_reset where there is no file.
ReloadsProfiles ==
  Reloads(userFiles) /\ UNCHANGED <<deviceRecords, savedFor, profileSaves>>

RecognitionNext ==
  \/ \E v \in Identities : Calls(v)
  \/ \E k \in DOMAIN deviceRecords, id \in UserIds : SavesFromDevice(k, id)
  \/ \E id \in UserIds : CreatesCopy(id)
  \/ \E id \in ProfileIds, address \in Addresses : BindsToAddress(id, address)
  \/ \E id \in DOMAIN userFiles : RemovesProfile(id)
  \/ ReloadsProfiles

RecognitionSpec == RecognitionInit /\ [][RecognitionNext]_recognitionVars

-----------------------------------------------------------------------------
(* Properties.                                                             *)

RecognitionTypeOK ==
  /\ profileList \in Seq(Profile) /\ DOMAIN savedFor \subseteq DOMAIN userFiles
  /\ \A id \in DOMAIN userFiles : userFiles[id] \in Profile /\ userFiles[id].id = id

\* "najjaci signal" (profile.rs:90): a profile that names the address of a
\* device is never beaten by what rules find in its texts, however many and
\* however long.
AddressWins ==
  \A v \in Identities :
    (\E i \in DOMAIN profileList : v.ip \in profileList[i].rules.ip)
      => v.ip \in Identify(profileList, v).rules.ip

\* Every rule that matches is worth margin points less than the whole text.
Below(said, rules, max, margin) ==
  \A r \in Matched(said, rules), t \in said :
    Specificity(r, max) + margin <= Specificity(t, max)

\* Profiles that neither name the address of v nor come near its texts.
FarFrom(q, v) ==
  /\ v.ip \notin q.rules.ip
  /\ Below(v.agent, q.rules.agent, 25, 3)
  /\ q.rules.name = v.name \/ Below(v.name, q.rules.name, 15, 2)

\* capture.rs says that the profile made from a device must recognise that
\* device.  It does, for requests that carry what was recorded, if the texts
\* of the device are twelve characters longer than what other rules find in
\* them, so that the number of those rules does not matter.
OwnTextWins ==
  \A id \in DOMAIN savedFor, v \in Identities :
    LET of == savedFor[id]
    IN  /\ of.agent # {} /\ v.agent = of.agent /\ v.name = of.name /\ v.type = {}
        /\ \A i \in DOMAIN profileList :
             profileList[i].rules.agent = v.agent \/ FarFrom(profileList[i], v)
        => Identify(profileList, v).rules.agent = v.agent

\* Who is recognised as what (matcher.rs, capture.rs).
RecognitionInv == RecognitionTypeOK /\ AddressWins /\ OwnTextWins

=============================================================================
