-------------------------- MODULE StrictModeProofs --------------------------
(***************************************************************************)
(* Theorems about StrictMode, for every set of tools and branches and all  *)
(* the bounds.                                                             *)
(***************************************************************************)
EXTENDS StrictMode, TLAPS

\* The mode is on wherever the branch's latest valid entry enables it: what
\* GateFollowsBranch says of the tools, said of the mode.
ModeFollowsBranch ==
  opened = "read" => hydrated /\ (Replay(log[active]) => modeEnabled)

\* The parent has a tool of its own, so an unhidden tool list is never taken for
\* the strict one while nothing was lost.
OwnTools == StrictActiveTools \subseteq userTools /\ userTools # StrictActiveTools

\* Outside strict mode only tools that were not listed are missing.
MissingIsUnlisted == (~modeEnabled /\ ~strayed) => userTools \subseteq tools \cup unlisted

\* Every tool is listed unless a call of the host failed.
ListedUnlessFailed == (faults = 0 /\ ~strayed) => unlisted = {}

\* The inductive invariant.
Facts ==
  /\ TypeOK /\ OwnTools /\ ModeFollowsBranch /\ UnsavedModeIsFlagged
  /\ HiddenToolsRemembered /\ MissingIsUnlisted /\ ListedUnlessFailed

\* An entry that enables is the latest one once it is written.
LEMMA ReplayOn == ASSUME NEW l \in Seq(Entries) PROVE Replay(Append(l, "on"))
<1>1. /\ Append(l, "on") \in Seq(Entries)
      /\ Len(Append(l, "on")) = Len(l) + 1
      /\ Append(l, "on")[Len(l) + 1] = "on"
  BY DEF Entries
<1>2. Len(l) + 1 \in 1..Len(Append(l, "on"))
  BY <1>1
<1>3. (Len(l) + 1 + 1)..Len(Append(l, "on")) = {}
  BY <1>1
<1> QED BY <1>1, <1>2, <1>3 DEF Replay

\* Nor is one that disables ever overruled by an older one.
LEMMA ReplayOff == ASSUME NEW l \in Seq(Entries) PROVE ~Replay(Append(l, "off"))
<1> SUFFICES ASSUME NEW i \in 1..Len(Append(l, "off")),
                    Append(l, "off")[i] = "on",
                    \A j \in (i + 1)..Len(Append(l, "off")) : Append(l, "off")[j] = "malformed"
             PROVE  FALSE
  BY DEF Replay
<1>1. /\ Append(l, "off") \in Seq(Entries)
      /\ Len(Append(l, "off")) = Len(l) + 1
      /\ Append(l, "off")[Len(l) + 1] = "off"
  BY DEF Entries
<1>2. i # Len(l) + 1
  BY <1>1
<1>3. Len(l) + 1 \in (i + 1)..Len(Append(l, "off"))
  BY <1>1, <1>2
<1> QED BY <1>1, <1>3

\* What setActiveTools leaves active, whether or not it throws.
LEMMA SetToolsOutcome ==
  ASSUME NEW from, NEW to, NEW set \in SetTools(from, to)
  PROVE  set.tools \in {from, to} /\ set.failed \in {0, 1}
BY DEF SetTools

LEMMA InitFacts == Init => Facts
<1> SUFFICES ASSUME Init PROVE Facts
  OBVIOUS
<1>1. log \in [Branches -> Seq(Entries)] /\ active \in Branches
  BY LogsAssumption DEF Init
<1>2. restoreTools \subseteq Tools /\ tools \subseteq Tools /\ userTools \subseteq Tools
      /\ unlisted \subseteq Tools
  BY DEF Init
<1>3. commands \in 0..MaxCommands /\ waiting \in 0..commands
      /\ moves \in 0..MaxMoves /\ faults \in 0..MaxFaults
  BY BoundsAssumption DEF Init
<1>4. hydrated \in BOOLEAN /\ modeEnabled \in BOOLEAN /\ persistenceDegraded \in BOOLEAN
      /\ busy \in BOOLEAN /\ strayed \in BOOLEAN /\ opened \in {"no", "unread", "read"}
  BY DEF Init
<1>5. TypeOK
  BY <1>1, <1>2, <1>3, <1>4 DEF TypeOK
<1>6. OwnTools
  BY DEF Init, OwnTools
<1> QED BY <1>5, <1>6
        DEF Init, Facts, ModeFollowsBranch, UnsavedModeIsFlagged, HiddenToolsRemembered,
            MissingIsUnlisted, ListedUnlessFailed

\* A repair, or an opening that hides what is active, loses only what it could
\* not list.
LEMMA RepairFacts ==
  ASSUME TypeOK, OwnTools, ListedUnlessFailed, NEW failed \in Nat,
         NEW restore \in SUBSET Tools, NEW now \in SUBSET Tools, NEW to \in SUBSET Tools,
         ~strayed => \/ userTools \subseteq restore \cup unlisted
                     \/ userTools \subseteq now \cup unlisted,
         Repair(restore, now, to, failed)
  PROVE  /\ tools' \subseteq Tools /\ restoreTools' \subseteq Tools
         /\ userTools' \subseteq Tools /\ unlisted' \subseteq Tools
         /\ faults' \in 0..MaxFaults /\ OwnTools'
         /\ ~strayed => userTools' \subseteq restoreTools' \cup unlisted'
         /\ (faults' = 0 /\ ~strayed) => unlisted' = {}
<1>0. faults \in Nat /\ userTools \subseteq Tools /\ unlisted \subseteq Tools
  BY BoundsAssumption DEF TypeOK
<1>1. ASSUME NEW unseen \in {0, 1}, unseen = 1 \/ now = StrictActiveTools,
             Spend(failed + unseen), tools' = now, restoreTools' = restore,
             unlisted' = unlisted \cup (now \ restore), userTools' = userTools
      PROVE  /\ tools' \subseteq Tools /\ restoreTools' \subseteq Tools
             /\ userTools' \subseteq Tools /\ unlisted' \subseteq Tools
             /\ faults' \in 0..MaxFaults /\ OwnTools'
             /\ ~strayed => userTools' \subseteq restoreTools' \cup unlisted'
             /\ (faults' = 0 /\ ~strayed) => unlisted' = {}
  <2>1. tools' \subseteq Tools /\ restoreTools' \subseteq Tools
        /\ userTools' \subseteq Tools /\ unlisted' \subseteq Tools
    BY <1>0, <1>1
  <2>2. faults' = faults + (failed + unseen) /\ faults' \in 0..MaxFaults
    BY <1>0, <1>1, BoundsAssumption DEF Spend
  <2>3. OwnTools'
    BY <1>1 DEF OwnTools
  <2>4. ~strayed => userTools' \subseteq restoreTools' \cup unlisted'
    BY <1>1
  <2>5. ASSUME faults' = 0, ~strayed PROVE unlisted' = {}
    <3>1. faults = 0 /\ unseen = 0
      BY <1>0, <2>2, <2>5
    <3>2. unlisted = {} /\ now = StrictActiveTools
      BY <1>1, <2>5, <3>1 DEF ListedUnlessFailed
    <3>3. userTools \subseteq restore
      BY <2>5, <3>2 DEF OwnTools
    <3> QED BY <1>1, <3>2, <3>3 DEF OwnTools
  <2> QED BY <2>1, <2>2, <2>3, <2>4, <2>5
<1>2. ASSUME now # StrictActiveTools, restoreTools' = restore \cup now,
             userTools' = userTools \cup now, unlisted' = unlisted \ now,
             NEW set \in SetTools(now, to), tools' = set.tools, Spend(failed + set.failed)
      PROVE  /\ tools' \subseteq Tools /\ restoreTools' \subseteq Tools
             /\ userTools' \subseteq Tools /\ unlisted' \subseteq Tools
             /\ faults' \in 0..MaxFaults /\ OwnTools'
             /\ ~strayed => userTools' \subseteq restoreTools' \cup unlisted'
             /\ (faults' = 0 /\ ~strayed) => unlisted' = {}
  <2>0. set.tools \in {now, to} /\ set.failed \in {0, 1}
    BY SetToolsOutcome
  <2>1. tools' \subseteq Tools /\ restoreTools' \subseteq Tools
        /\ userTools' \subseteq Tools /\ unlisted' \subseteq Tools
    BY <1>0, <1>2, <2>0
  <2>2. faults' = faults + (failed + set.failed) /\ faults' \in 0..MaxFaults
    BY <1>0, <1>2, <2>0, BoundsAssumption DEF Spend
  <2>3. OwnTools'
    BY <1>2 DEF OwnTools
  <2>4. ~strayed => userTools' \subseteq restoreTools' \cup unlisted'
    BY <1>2
  <2>5. ASSUME faults' = 0, ~strayed PROVE unlisted' = {}
    <3>1. faults = 0
      BY <1>0, <2>0, <2>2, <2>5
    <3> QED BY <1>2, <2>5, <3>1 DEF ListedUnlessFailed
  <2> QED BY <2>1, <2>2, <2>3, <2>4, <2>5
<1> QED BY <1>1, <1>2 DEF Repair

\* Opening a session or a leaf, with the host's list "now".
LEMMA HydrateFacts ==
  ASSUME Facts, NEW b \in Branches, NEW now \in {tools, userTools}, Hydrate(b, now),
         Move, UNCHANGED <<busy, waiting, commands>>
  PROVE  Facts'
<1>1. TypeOK /\ OwnTools /\ ListedUnlessFailed
  BY DEF Facts
<1>2. /\ now \in SUBSET Tools /\ restoreTools \in SUBSET Tools
      /\ StrictActiveTools \in SUBSET Tools
      /\ (~modeEnabled /\ ~strayed) => userTools \subseteq now \cup unlisted
      /\ ~strayed => \/ userTools \subseteq restoreTools \cup unlisted
                     \/ userTools \subseteq now \cup unlisted
  BY <1>1, ToolsAssumption DEF Facts, TypeOK, MissingIsUnlisted, HiddenToolsRemembered
<1>3. active' = b /\ log' = log /\ persistenceDegraded' = persistenceDegraded
  BY DEF Hydrate
<1>4. Replay(log[b]) \in BOOLEAN
  BY DEF Replay
<1>5. moves' \in 0..MaxMoves /\ commands' \in 0..MaxCommands /\ waiting' \in 0..commands'
      /\ busy' \in BOOLEAN
  BY <1>1, BoundsAssumption DEF Move, TypeOK
<1>6. log' \in [Branches -> Seq(Entries)] /\ active' \in Branches
      /\ persistenceDegraded' \in BOOLEAN
  BY <1>1, <1>3 DEF TypeOK
\* Nothing is hidden: the list stays, and what is remembered does not matter.
<1>7. ASSUME tools' = now, Spend(0) \/ Spend(1), userTools' = userTools,
             unlisted' = unlisted, restoreTools' \in {{}, restoreTools}
      PROVE  /\ tools' \subseteq Tools /\ restoreTools' \subseteq Tools
             /\ userTools' \subseteq Tools /\ unlisted' \subseteq Tools
             /\ faults' \in 0..MaxFaults /\ OwnTools'
             /\ (faults' = 0 /\ ~strayed) => unlisted' = {}
  <2>1. faults' \in 0..MaxFaults /\ (faults' = 0 => faults = 0)
    BY <1>1, <1>7, BoundsAssumption DEF Spend, TypeOK
  <2> QED BY <1>1, <1>2, <1>7, <2>1 DEF TypeOK, OwnTools, ListedUnlessFailed
<1>8. CASE NotReplayed(now)
  <2>1. opened' = "unread" /\ hydrated' = hydrated /\ modeEnabled' = modeEnabled
        /\ strayed' = strayed
    BY <1>8 DEF NotReplayed
  <2>2. CASE modeRuntimeIsStrict
    <3>1. Repair(restoreTools, now, StrictActiveTools, 1)
      BY <1>8, <2>2 DEF NotReplayed
    <3>2. /\ tools' \subseteq Tools /\ restoreTools' \subseteq Tools
          /\ userTools' \subseteq Tools /\ unlisted' \subseteq Tools
          /\ faults' \in 0..MaxFaults /\ OwnTools'
          /\ ~strayed => userTools' \subseteq restoreTools' \cup unlisted'
          /\ (faults' = 0 /\ ~strayed) => unlisted' = {}
      BY <1>1, <1>2, <3>1, RepairFacts
    <3>3. TypeOK'
      BY <1>1, <1>5, <1>6, <2>1, <3>2 DEF TypeOK
    <3>4. modeEnabled'
      BY <2>1, <2>2 DEF modeRuntimeIsStrict
    <3> QED BY <2>1, <3>2, <3>3, <3>4
            DEF Facts, ModeFollowsBranch, UnsavedModeIsFlagged, HiddenToolsRemembered,
                MissingIsUnlisted, ListedUnlessFailed
  <2>3. CASE ~modeRuntimeIsStrict
    <3>1. tools' = now /\ Spend(1) /\ restoreTools' = restoreTools
          /\ userTools' = userTools /\ unlisted' = unlisted
      BY <1>8, <2>3 DEF NotReplayed
    <3>2. /\ tools' \subseteq Tools /\ restoreTools' \subseteq Tools
          /\ userTools' \subseteq Tools /\ unlisted' \subseteq Tools
          /\ faults' \in 0..MaxFaults /\ OwnTools'
          /\ (faults' = 0 /\ ~strayed) => unlisted' = {}
      BY <1>7, <3>1
    <3>3. TypeOK'
      BY <1>1, <1>5, <1>6, <2>1, <3>2 DEF TypeOK
    <3>4. HiddenToolsRemembered' /\ MissingIsUnlisted'
      BY <1>2, <2>1, <3>1 DEF Facts, HiddenToolsRemembered, MissingIsUnlisted
    <3> QED BY <2>1, <3>2, <3>3, <3>4
            DEF Facts, ModeFollowsBranch, UnsavedModeIsFlagged, ListedUnlessFailed
  <2> QED BY <2>2, <2>3
<1>9. CASE Replayed(b, now) /\ ~Replay(log[b])
  <2>1. /\ opened' = "read" /\ hydrated' = TRUE /\ modeEnabled' = FALSE
        /\ strayed' = (strayed \/ modeEnabled)
    BY <1>4, <1>9 DEF Replayed
  <2>2. tools' = now /\ Spend(0) /\ userTools' = userTools /\ unlisted' = unlisted
        /\ restoreTools' \in {{}, restoreTools}
    BY <1>9 DEF Replayed
  <2>3. /\ tools' \subseteq Tools /\ restoreTools' \subseteq Tools
        /\ userTools' \subseteq Tools /\ unlisted' \subseteq Tools
        /\ faults' \in 0..MaxFaults /\ OwnTools'
        /\ (faults' = 0 /\ ~strayed) => unlisted' = {}
    BY <1>7, <2>2
  <2>4. strayed' \in BOOLEAN
    BY <1>1, <2>1, Zenon DEF TypeOK
  <2>5. TypeOK'
    BY <1>5, <1>6, <2>1, <2>3, <2>4 DEF TypeOK
  <2>6. MissingIsUnlisted'
    BY <1>2, <2>1, <2>2 DEF MissingIsUnlisted
  <2> QED BY <1>3, <1>9, <2>1, <2>3, <2>5, <2>6
          DEF Facts, ModeFollowsBranch, UnsavedModeIsFlagged, HiddenToolsRemembered,
              ListedUnlessFailed
<1>10. CASE Replayed(b, now) /\ Replay(log[b])
  <2>1. opened' = "read" /\ hydrated' = TRUE /\ modeEnabled' = TRUE /\ strayed' = strayed
    BY <1>1, <1>4, <1>10 DEF Replayed, TypeOK
  <2>2. Repair(restoreTools, now, StrictActiveTools, 0)
    BY <1>10 DEF Replayed
  <2>3. /\ tools' \subseteq Tools /\ restoreTools' \subseteq Tools
        /\ userTools' \subseteq Tools /\ unlisted' \subseteq Tools
        /\ faults' \in 0..MaxFaults /\ OwnTools'
        /\ ~strayed => userTools' \subseteq restoreTools' \cup unlisted'
        /\ (faults' = 0 /\ ~strayed) => unlisted' = {}
    BY <1>1, <1>2, <2>2, RepairFacts
  <2>4. TypeOK'
    BY <1>1, <1>5, <1>6, <2>1, <2>3 DEF TypeOK
  <2> QED BY <1>3, <1>10, <2>1, <2>3, <2>4
          DEF Facts, ModeFollowsBranch, UnsavedModeIsFlagged, HiddenToolsRemembered,
              MissingIsUnlisted, ListedUnlessFailed
<1> QED BY <1>8, <1>9, <1>10 DEF Hydrate

\* enableStrict's last step: what the mode hides is remembered, and the entry is
\* on the branch or its absence flagged.
LEMMA EnableFacts ==
  ASSUME Facts, Enable, userTools' = userTools,
         busy' \in BOOLEAN, moves' \in 0..MaxMoves,
         commands' \in 0..MaxCommands, waiting' \in 0..commands'
  PROVE  Facts'
<1>1. TypeOK /\ OwnTools
  BY DEF Facts
<1>2. /\ modeEnabled' = TRUE
      /\ strayed' = (strayed \/ modeEnabled)
      /\ active' = active /\ hydrated' = hydrated
  BY DEF Enable
<1>3. PICK unseen \in {0, 1}, unsaved \in {0, 1}, set \in SetTools(tools, StrictActiveTools) :
         /\ Spend(unseen + set.failed + unsaved)
         /\ Baseline(unseen) /\ tools' = set.tools /\ Persist("on", unsaved)
         /\ persistenceDegraded' = (persistenceDegraded \/ unsaved = 1)
  BY DEF Enable
<1>4. set.tools \in {tools, StrictActiveTools} /\ set.failed \in {0, 1}
  BY <1>3, SetToolsOutcome
<1>5. faults' = faults + (unseen + set.failed + unsaved) /\ faults' \in 0..MaxFaults
  <2>1. unseen + set.failed + unsaved \in Nat
    BY <1>4
  <2>2. faults \in Nat
    BY <1>1, BoundsAssumption DEF TypeOK
  <2>3. /\ faults' = faults + (unseen + set.failed + unsaved)
        /\ faults + (unseen + set.failed + unsaved) <= MaxFaults
    BY <1>3, Zenon DEF Spend
  <2> QED BY <2>1, <2>2, <2>3, BoundsAssumption
<1>6. /\ unseen = 0 => restoreTools' = tools /\ unlisted' = unlisted \ tools
      /\ unseen = 1 => restoreTools' = {} /\ unlisted' = unlisted \cup tools
  BY <1>3 DEF Baseline
<1>7. tools' \subseteq Tools /\ restoreTools' \subseteq Tools /\ userTools' \subseteq Tools
      /\ unlisted' \subseteq Tools
  BY <1>1, <1>3, <1>4, <1>6, ToolsAssumption DEF TypeOK
<1>8. log[active] \in Seq(Entries) /\ "on" \in Entries
  BY <1>1 DEF TypeOK, Entries
<1>9. log' \in [Branches -> Seq(Entries)] /\ active' \in Branches
  <2>1. log' = log \/ log' = [log EXCEPT ![active] = Append(@, "on")]
    BY <1>3, Zenon DEF Persist
  <2>2. Append(log[active], "on") \in Seq(Entries)
    BY <1>8
  <2> QED BY <1>1, <1>2, <2>1, <2>2 DEF TypeOK
<1>10. opened' \in {"no", "unread", "read"}
  <2>1. opened' \in {"read", opened}
    BY <1>3, Zenon DEF Persist
  <2> QED BY <1>1, <2>1 DEF TypeOK
<1>11. hydrated' \in BOOLEAN /\ modeEnabled' \in BOOLEAN /\ strayed' \in BOOLEAN
  BY <1>1, <1>2, Zenon DEF TypeOK
<1>12. persistenceDegraded' \in BOOLEAN
  BY <1>1, <1>3 DEF TypeOK
<1>13. TypeOK'
  BY <1>5, <1>7, <1>9, <1>10, <1>11, <1>12 DEF TypeOK
<1>14. UnsavedModeIsFlagged'
  <2>1. CASE unsaved = 0
    <3>1. log'[active] = Append(log[active], "on")
      BY <1>1, <1>3, <2>1 DEF Persist, TypeOK
    <3> QED BY <1>2, <1>8, <3>1, ReplayOn DEF UnsavedModeIsFlagged
  <2>2. CASE unsaved = 1
    BY <1>3, <2>2 DEF UnsavedModeIsFlagged
  <2> QED BY <2>1, <2>2
<1>15. HiddenToolsRemembered'
  BY <1>2, <1>6 DEF Facts, MissingIsUnlisted, HiddenToolsRemembered
<1>16. OwnTools'
  BY <1>1 DEF OwnTools
<1>17. ListedUnlessFailed'
  <2> SUFFICES ASSUME faults' = 0, ~strayed' PROVE unlisted' = {}
    BY DEF ListedUnlessFailed
  <2>1. faults = 0 /\ unseen = 0
    BY <1>1, <1>4, <1>5, BoundsAssumption DEF TypeOK
  <2> QED BY <1>2, <1>6, <2>1 DEF Facts, ListedUnlessFailed
<1>18. ModeFollowsBranch'
  BY <1>2, <1>3 DEF Facts, ModeFollowsBranch, Persist
<1> QED BY <1>2, <1>13, <1>14, <1>15, <1>16, <1>17, <1>18 DEF Facts, MissingIsUnlisted

\* disableStrict: the gate opens only together with a written entry and the tools.
LEMMA DisableFacts == ASSUME Facts, DisableStrict PROVE Facts'
<1>1. TypeOK /\ OwnTools
  BY DEF Facts
<1>2. /\ active' = active /\ hydrated' = hydrated /\ busy' = busy /\ waiting' = waiting
      /\ userTools' = userTools /\ unlisted' = unlisted /\ strayed' = strayed
      /\ moves' = moves /\ modeEnabled
  BY DEF DisableStrict
<1>3. commands' \in 0..MaxCommands /\ waiting' \in 0..commands' /\ moves' \in 0..MaxMoves
  BY <1>1, <1>2, BoundsAssumption DEF DisableStrict, Command, TypeOK
<1>4. OwnTools'
  BY <1>1, <1>2 DEF OwnTools
<1>5. log[active] \in Seq(Entries) /\ "off" \in Entries
  BY <1>1 DEF TypeOK, Entries
<1>6. CASE DisableCannotRestore
  <2>1. PICK set \in SetTools(tools, StrictActiveTools) :
           tools' = set.tools /\ Spend(1 + set.failed)
    BY <1>6 DEF DisableCannotRestore
  <2>2. set.tools \in {tools, StrictActiveTools} /\ set.failed \in {0, 1}
    BY <2>1, SetToolsOutcome
  <2>3. faults' \in 0..MaxFaults /\ (faults' = 0 => faults = 0)
    BY <1>1, <2>1, <2>2, BoundsAssumption DEF Spend, TypeOK
  <2>4. /\ log' = log /\ opened' = opened /\ modeEnabled' = modeEnabled /\ restoreTools' = restoreTools
        /\ persistenceDegraded' = persistenceDegraded
    BY <1>6 DEF DisableCannotRestore
  <2>5. tools' \subseteq Tools
    BY <1>1, <2>1, <2>2, ToolsAssumption DEF TypeOK
  <2>6. TypeOK'
    BY <1>1, <1>2, <1>3, <2>3, <2>4, <2>5 DEF TypeOK
  <2> QED BY <1>2, <1>4, <2>3, <2>4, <2>6
          DEF Facts, ModeFollowsBranch, UnsavedModeIsFlagged, HiddenToolsRemembered,
              MissingIsUnlisted, ListedUnlessFailed
<1>7. CASE DisableCannotPersist
  <2>1. PICK set \in SetTools(restoreTools, StrictActiveTools) :
           tools' = set.tools /\ Spend(1 + set.failed)
    BY <1>7 DEF DisableCannotPersist
  <2>2. set.tools \in {restoreTools, StrictActiveTools} /\ set.failed \in {0, 1}
    BY <2>1, SetToolsOutcome
  <2>3. faults' \in 0..MaxFaults /\ (faults' = 0 => faults = 0)
    BY <1>1, <2>1, <2>2, BoundsAssumption DEF Spend, TypeOK
  <2>4. /\ log' = log /\ opened' = opened /\ modeEnabled' = modeEnabled /\ restoreTools' = restoreTools
        /\ persistenceDegraded' = TRUE
    BY <1>7 DEF DisableCannotPersist
  <2>5. tools' \subseteq Tools
    BY <1>1, <2>1, <2>2, ToolsAssumption DEF TypeOK
  <2>6. TypeOK'
    BY <1>1, <1>2, <1>3, <2>3, <2>4, <2>5 DEF TypeOK
  <2> QED BY <1>2, <1>4, <2>3, <2>4, <2>6
          DEF Facts, ModeFollowsBranch, UnsavedModeIsFlagged, HiddenToolsRemembered,
              MissingIsUnlisted, ListedUnlessFailed
<1>8. CASE DisableSucceeds
  <2>1. /\ tools' = restoreTools /\ Spend(0) /\ modeEnabled' = FALSE
        /\ persistenceDegraded' = FALSE /\ restoreTools' = {}
        /\ log' = [log EXCEPT ![active] = Append(@, "off")]
        /\ opened' \in {"read", opened} /\ (opened' = "read" => hydrated \/ opened = "read")
    BY <1>8 DEF DisableSucceeds, Persist
  <2>2. log' \in [Branches -> Seq(Entries)] /\ log'[active] = Append(log[active], "off")
    BY <1>1, <1>5, <2>1 DEF TypeOK
  <2>3. faults' \in 0..MaxFaults /\ (faults' = 0 => faults = 0)
    BY <1>1, <2>1, BoundsAssumption DEF Spend, TypeOK
  <2>4. TypeOK'
    BY <1>1, <1>2, <1>3, <2>1, <2>2, <2>3 DEF TypeOK
  <2>5. ~Replay(log'[active'])
    BY <1>2, <1>5, <2>2, ReplayOff
  <2> QED BY <1>2, <1>4, <2>1, <2>3, <2>4, <2>5
          DEF Facts, ModeFollowsBranch, UnsavedModeIsFlagged, HiddenToolsRemembered,
              MissingIsUnlisted, ListedUnlessFailed
<1> QED BY <1>6, <1>7, <1>8 DEF DisableStrict

\* before_agent_start: the repair remembers what it hides.
LEMMA TurnStartsFacts == ASSUME Facts, TurnStarts PROVE Facts'
<1>1. TypeOK /\ OwnTools /\ ListedUnlessFailed
  BY DEF Facts
<1>2. /\ log' = log /\ active' = active /\ hydrated' = hydrated /\ modeEnabled' = modeEnabled
      /\ persistenceDegraded' = persistenceDegraded /\ waiting' = waiting /\ opened' = opened
      /\ strayed' = strayed /\ commands' = commands /\ moves' = moves /\ busy' = TRUE
  BY DEF TurnStarts, session
<1>3. CASE modeRuntimeIsStrict
  <2>1. Repair(restoreTools, tools, {Delegate}, 0)
    BY <1>3 DEF TurnStarts
  <2>2. modeEnabled /\ (~strayed => userTools \subseteq restoreTools \cup unlisted)
    BY <1>3 DEF modeRuntimeIsStrict, Facts, HiddenToolsRemembered
  <2>3. restoreTools \in SUBSET Tools /\ tools \in SUBSET Tools /\ {Delegate} \in SUBSET Tools
    BY <1>1, ToolsAssumption DEF TypeOK
  <2>4. /\ tools' \subseteq Tools /\ restoreTools' \subseteq Tools
        /\ userTools' \subseteq Tools /\ unlisted' \subseteq Tools
        /\ faults' \in 0..MaxFaults /\ OwnTools'
        /\ ~strayed => userTools' \subseteq restoreTools' \cup unlisted'
        /\ (faults' = 0 /\ ~strayed) => unlisted' = {}
    BY <1>1, <2>1, <2>2, <2>3, RepairFacts
  <2>5. TypeOK'
    BY <1>1, <1>2, <2>4 DEF TypeOK
  <2> QED BY <1>2, <2>2, <2>4, <2>5
          DEF Facts, ModeFollowsBranch, UnsavedModeIsFlagged, HiddenToolsRemembered,
              MissingIsUnlisted, ListedUnlessFailed
<1>4. CASE ~modeRuntimeIsStrict
  <2>1. UNCHANGED <<restoreTools, userTools, unlisted, tools, faults>>
    BY <1>4 DEF TurnStarts
  <2>2. TypeOK'
    BY <1>1, <1>2, <2>1 DEF TypeOK
  <2> QED BY <1>2, <2>1, <2>2
          DEF Facts, OwnTools, ModeFollowsBranch, UnsavedModeIsFlagged, HiddenToolsRemembered,
              MissingIsUnlisted, ListedUnlessFailed
<1> QED BY <1>3, <1>4

\* A new branch changes no other branch, and never the active one.
LEMMA ForkFacts ==
  ASSUME Facts, NEW b \in Branches, NEW c \in Branches, Fork(b, c) PROVE Facts'
<1>1. TypeOK
  BY DEF Facts
<1>2. PICK n \in 1..Len(log[c]) : log' = [log EXCEPT ![b] = SubSeq(log[c], 1, n)]
  BY DEF Fork
<1>3. log[c] \in Seq(Entries)
  BY <1>1 DEF TypeOK
<1>4. SubSeq(log[c], 1, n) \in Seq(Entries)
  BY <1>2, <1>3
<1>5. log' \in [Branches -> Seq(Entries)] /\ log'[active] = log[active]
  BY <1>1, <1>2, <1>4 DEF Fork, TypeOK
<1>6. UNCHANGED <<active, hydrated, modeEnabled, persistenceDegraded, restoreTools, tools,
                  busy, waiting, opened, userTools, unlisted, strayed, commands, moves, faults>>
  BY DEF Fork, runtime, history, counters
<1>7. TypeOK'
  BY <1>1, <1>5, <1>6 DEF TypeOK
<1> QED BY <1>5, <1>6, <1>7
        DEF Facts, OwnTools, ModeFollowsBranch, UnsavedModeIsFlagged,
            HiddenToolsRemembered, MissingIsUnlisted, ListedUnlessFailed

\* A new process has the host's own tools and no mode.
LEMMA RestartFacts == ASSUME Facts, Restart PROVE Facts'
<1>1. TypeOK
  BY DEF Facts
<1>2. moves' \in 0..MaxMoves
  BY <1>1, BoundsAssumption DEF Restart, Move, TypeOK
<1>3. waiting' \in 0..commands' /\ commands' \in 0..MaxCommands
  BY <1>1, BoundsAssumption DEF Restart, TypeOK
<1>4. TypeOK'
  BY <1>1, <1>2, <1>3 DEF Restart, session, TypeOK
<1> QED BY <1>4
        DEF Restart, Facts, OwnTools, ModeFollowsBranch, UnsavedModeIsFlagged,
            HiddenToolsRemembered, MissingIsUnlisted, ListedUnlessFailed

\* A tool activated by somebody else.
LEMMA ToolActivatedFacts ==
  ASSUME Facts, NEW t \in Tools, ToolActivated(t) PROVE Facts'
<1>1. TypeOK
  BY DEF Facts
<1>2. /\ tools' = tools \cup {t}
      /\ userTools' = IF modeEnabled THEN userTools ELSE userTools \cup {t}
      /\ UNCHANGED <<log, active, hydrated, modeEnabled, persistenceDegraded, restoreTools,
                     busy, waiting, opened, unlisted, strayed, commands, moves, faults>>
  BY DEF ToolActivated, session, runtime, counters
<1>3. TypeOK'
  BY <1>1, <1>2 DEF TypeOK
<1>4. OwnTools'
  BY <1>2 DEF Facts, OwnTools
<1> QED BY <1>2, <1>3, <1>4
        DEF Facts, ModeFollowsBranch, UnsavedModeIsFlagged,
            HiddenToolsRemembered, MissingIsUnlisted, ListedUnlessFailed

\* The steps that change only the counters, "busy" and "waiting".
LEMMA QuietFacts ==
  ASSUME Facts, UNCHANGED <<session, runtime, tools, history, moves, faults>>,
         busy' \in BOOLEAN, commands' \in 0..MaxCommands, waiting' \in 0..commands'
  PROVE  Facts'
<1>1. UNCHANGED <<log, active, hydrated, modeEnabled, persistenceDegraded, restoreTools, tools,
                  opened, userTools, unlisted, strayed, moves, faults>>
  BY DEF session, runtime, history
<1>2. TypeOK'
  BY <1>1 DEF Facts, TypeOK
<1> QED BY <1>1, <1>2
        DEF Facts, OwnTools, ModeFollowsBranch, UnsavedModeIsFlagged,
            HiddenToolsRemembered, MissingIsUnlisted, ListedUnlessFailed

------------------------------------------------------------------------------
(* Every step keeps the facts                                              *)

LEMMA StepFacts == Facts /\ [Next]_vars => Facts'
<1> SUFFICES ASSUME Facts, [Next]_vars PROVE Facts'
  OBVIOUS
<1>0. TypeOK
  BY DEF Facts
<1>1. ASSUME NEW b \in Branches, SessionStart(b) PROVE Facts'
  <2>1. PICK now \in {tools, userTools} : Hydrate(b, now)
    BY <1>1 DEF SessionStart
  <2> QED BY <1>1, <2>1, HydrateFacts DEF SessionStart
<1>2. ASSUME NEW b \in Branches, SessionTree(b) PROVE Facts'
  BY <1>2, HydrateFacts DEF SessionTree
<1>3. ASSUME NEW b \in Branches, NEW c \in Branches, Fork(b, c) PROVE Facts'
  BY <1>3, ForkFacts
<1>4. ASSUME NEW t \in Tools, ToolActivated(t) PROVE Facts'
  BY <1>4, ToolActivatedFacts
<1>5. CASE Restart
  BY <1>5, RestartFacts
<1>6. CASE TurnStarts
  BY <1>6, TurnStartsFacts
<1>7. CASE TurnEnds
  BY <1>0, <1>7, QuietFacts DEF TurnEnds, counters, TypeOK
<1>8. CASE EnableStrict
  <2>1. commands' \in 0..MaxCommands /\ waiting' \in 0..commands'
    BY <1>0, <1>8, BoundsAssumption DEF EnableStrict, Command, TypeOK
  <2>2. Enable /\ userTools' = userTools /\ busy' \in BOOLEAN /\ moves' \in 0..MaxMoves
    BY <1>0, <1>8 DEF EnableStrict, TypeOK
  <2> QED BY <2>1, <2>2, EnableFacts
<1>9. CASE EnableStrictWaits
  <2>1. commands' \in 0..MaxCommands /\ waiting' \in 0..commands'
    BY <1>0, <1>9, BoundsAssumption DEF EnableStrictWaits, Command, TypeOK
  <2> QED BY <1>0, <1>9, <2>1, QuietFacts DEF EnableStrictWaits, TypeOK
<1>10. CASE EnableStrictResumes
  <2>1. commands' \in 0..MaxCommands /\ waiting' \in 0..commands'
    BY <1>0, <1>10, BoundsAssumption DEF EnableStrictResumes, TypeOK
  <2>2. Enable /\ userTools' = userTools /\ busy' \in BOOLEAN /\ moves' \in 0..MaxMoves
    BY <1>0, <1>10 DEF EnableStrictResumes, TypeOK
  <2> QED BY <2>1, <2>2, EnableFacts
<1>11. CASE EnableStrictGivesUp
  <2>1. commands' \in 0..MaxCommands /\ waiting' \in 0..commands'
    BY <1>0, <1>11, BoundsAssumption DEF EnableStrictGivesUp, counters, TypeOK
  <2> QED BY <1>0, <1>11, <2>1, QuietFacts DEF EnableStrictGivesUp, counters, TypeOK
<1>12. CASE DisableStrict
  BY <1>12, DisableFacts
<1>13. CASE UNCHANGED vars
  BY <1>0, <1>13, QuietFacts DEF vars, counters, TypeOK
<1> QED BY <1>1, <1>2, <1>3, <1>4, <1>5, <1>6, <1>7, <1>8, <1>9, <1>10, <1>11, <1>12, <1>13 DEF Next

------------------------------------------------------------------------------
(* Theorems                                                                *)

\* The inductive invariant holds in every reachable state, however sessions,
\* commands, turns and failures of the host interleave.
THEOREM Invariance == Spec => []Facts
BY InitFacts, StepFacts, PTL DEF Spec

\* Every variable keeps its type and every bound holds.
THEOREM TypeCorrect == Spec => []TypeOK
<1>1. Facts => TypeOK
  BY DEF Facts
<1> QED BY Invariance, <1>1, PTL

\* gateToolCall refuses every other tool on a branch whose latest valid entry
\* enables strict mode, unless the branch could not be replayed.
THEOREM GateHolds == Spec => []GateFollowsBranch
<1>1. Facts => GateFollowsBranch
  <2> SUFFICES ASSUME Facts, opened = "read", Replay(log[active]),
                      NEW t \in Tools \ StrictActiveTools
               PROVE  ~MayRun(t)
    BY DEF GateFollowsBranch, Gated
  <2>1. hydrated /\ modeEnabled
    BY DEF Facts, ModeFollowsBranch
  <2> QED BY <2>1 DEF MayRun, modeRuntimeIsStrict
<1> QED BY Invariance, <1>1, PTL

\* Strict mode that reopening the branch would not restore is flagged degraded,
\* unless the branch could not be replayed.
THEOREM ModeIsFlagged == Spec => []UnsavedModeIsFlagged
<1>1. Facts => UnsavedModeIsFlagged
  BY DEF Facts
<1> QED BY Invariance, <1>1, PTL

\* What enableStrict, the repairs and a reopening hid is in restoreTools, as far
\* as the host could list it.
THEOREM ToolsRemembered == Spec => []HiddenToolsRemembered
<1>1. Facts => HiddenToolsRemembered
  BY DEF Facts
<1> QED BY Invariance, <1>1, PTL

\* After disableStrict the user has every tool again that could be listed, and
\* every tool while no call of the host failed.
THEOREM ToolsGivenBack == Spec => []ToolsAreBack
<1>1. Facts => ToolsAreBack
  BY DEF Facts, MissingIsUnlisted, ListedUnlessFailed, ToolsAreBack
<1> QED BY Invariance, <1>1, PTL
=============================================================================
