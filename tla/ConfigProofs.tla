---------------------------- MODULE ConfigProofs ----------------------------
(***************************************************************************)
(* Theorems about Config, for every set of processes and projects, every   *)
(* defaults, limits and files.                                             *)
(***************************************************************************)
EXTENDS Config, TLAPS

\* A process has no stuck-tool timeout only where the defaults have none: a file
\* cannot take it away, and neither can an edit.
UnsetIsDefault == \A p \in Procs : live[p].stuck = Unset => Default.stuck = Unset

\* The inductive invariant.
IInv == TypeOK /\ WatchdogsInsideHard /\ InStep /\ UnsetIsDefault

\* The keys that a file need not have, or may have a useless value for.
Useless == {Absent, Junk, Unset}

\* What normalizeConfig may be given: of each sort, or useless.
RawOK(raw) ==
  /\ raw.hard \in Int \cup Useless /\ raw.idle \in Int \cup Useless
  /\ raw.stuck \in Int \cup Useless
  /\ raw.exec \in Modes \cup Useless /\ raw.progress \in BOOLEAN \cup Useless

\* Settings with a nested block of their own.
Complete(c) == c \in DelegateConfig /\ c.progress \in BOOLEAN

------------------------------------------------------------------------------
(* Records over the keys                                                   *)

LEMMA KeysAre == Keys = {"hard", "idle", "stuck", "exec", "progress"}
BY DEF Keys, Numbers

\* A function over the keys is a configuration if its values are.
LEMMA FunctionIsConfig ==
  ASSUME NEW c, c = [k \in Keys |-> c[k]],
         c.hard \in Lo..Hi.hard, c.idle \in Lo..Hi.idle, c.stuck \in Lo..Hi.stuck \cup {Unset},
         c.exec \in Modes, c.progress \in BOOLEAN \cup {Shared}
  PROVE  c \in DelegateConfig
<1>1. c = [hard |-> c.hard, idle |-> c.idle, stuck |-> c.stuck, exec |-> c.exec,
           progress |-> c.progress]
  BY KeysAre
<1> QED BY <1>1 DEF DelegateConfig

LEMMA ConfigIsFunction ==
  ASSUME NEW c \in DelegateConfig
  PROVE  /\ c = [k \in Keys |-> c[k]] /\ DOMAIN c = Keys
         /\ c.hard \in Lo..Hi.hard /\ c.idle \in Lo..Hi.idle
         /\ c.stuck \in Lo..Hi.stuck \cup {Unset}
         /\ c.exec \in Modes /\ c.progress \in BOOLEAN \cup {Shared}
<1>1. DOMAIN c = Keys /\ c = [k \in DOMAIN c |-> c[k]]
  BY KeysAre DEF DelegateConfig
<1> QED BY <1>1 DEF DelegateConfig

\* A function over the keys of a file is a file if its values are.
LEMMA FunctionIsFile ==
  ASSUME NEW f, f = [k \in Keys \cup {"extra"} |-> f[k]],
         f.hard \in Given(Int), f.idle \in Given(Int), f.stuck \in Given(Int),
         f.exec \in Given(Modes), f.progress \in Given(BOOLEAN), f.extra \in {TRUE, Absent}
  PROVE  f \in File
<1>1. f = [hard |-> f.hard, idle |-> f.idle, stuck |-> f.stuck, exec |-> f.exec,
           progress |-> f.progress, extra |-> f.extra]
  BY KeysAre
<1> QED BY <1>1 DEF File

LEMMA FileIsFunction ==
  ASSUME NEW f \in File
  PROVE  /\ f = [k \in Keys \cup {"extra"} |-> f[k]] /\ DOMAIN f = Keys \cup {"extra"}
         /\ f.hard \in Given(Int) /\ f.idle \in Given(Int) /\ f.stuck \in Given(Int)
         /\ f.exec \in Given(Modes) /\ f.progress \in Given(BOOLEAN)
         /\ f.extra \in {TRUE, Absent}
<1>1. DOMAIN f = Keys \cup {"extra"} /\ f = [k \in DOMAIN f |-> f[k]]
  BY KeysAre DEF File
<1> QED BY <1>1 DEF File

\* Nothing is both a file and none.
LEMMA FilesAreReadable ==
  ASSUME NEW f PROVE (f \in File => Readable(f)) /\ (f \in File \cup NoFile /\ Readable(f) => f \in File)
BY SpecialAssumption DEF Readable

------------------------------------------------------------------------------
(* The pure parts                                                          *)

\* Clamping brings every number inside its limits, and leaves one that is.
LEMMA ClampBounds ==
  ASSUME NEW k \in Numbers, NEW v \in Int
  PROVE  Clamp(k, v) \in Lo..Hi[k] /\ (v \in Lo..Hi[k] => Clamp(k, v) = v)
<1>1. Lo \in Int /\ Hi[k] \in Int /\ Lo <= Hi[k]
  BY LimitsAssumption DEF Numbers
<1> QED BY <1>1 DEF Clamp

\* Normalizing gives a complete configuration, whatever it is given.
LEMMA NormalComplete ==
  ASSUME NEW raw, RawOK(raw), NEW base, Complete(base)
  PROVE  Complete(Normal(raw, base))
<1> DEFINE c == Normal(raw, base)
<1>1. /\ c = [k \in Keys |-> c[k]]
      /\ \A k \in Keys : c[k] = IF raw[k] \in Useless THEN base[k] ELSE Accepted(k, raw[k])
  BY DEF Normal, Useless
<1>2. /\ "hard" \in Numbers /\ "idle" \in Numbers /\ "stuck" \in Numbers
      /\ "exec" \notin Numbers /\ "progress" \notin Numbers
      /\ "exec" \in Keys /\ "progress" \in Keys /\ Numbers \subseteq Keys
  BY DEF Keys, Numbers
<1>3. \A k \in Numbers : \A v \in Int : Accepted(k, v) \in Lo..Hi[k]
  BY ClampBounds DEF Accepted
<1>4. \A v : Accepted("exec", v) = v /\ Accepted("progress", v) = v
  BY <1>2 DEF Accepted
<1>5. /\ base.hard \in Lo..Hi.hard /\ base.idle \in Lo..Hi.idle
      /\ base.stuck \in Lo..Hi.stuck \cup {Unset} /\ base.exec \in Modes
      /\ base.progress \in BOOLEAN
  BY ConfigIsFunction DEF Complete
<1> HIDE DEF c
<1>6. c.hard \in Lo..Hi.hard
  BY <1>1, <1>2, <1>3, <1>5 DEF RawOK
<1>7. c.idle \in Lo..Hi.idle
  BY <1>1, <1>2, <1>3, <1>5 DEF RawOK
<1>8. c.stuck \in Lo..Hi.stuck \cup {Unset}
  BY <1>1, <1>2, <1>3, <1>5 DEF RawOK
<1>9. c.exec \in Modes
  BY <1>1, <1>2, <1>4, <1>5 DEF RawOK
<1>10. c.progress \in BOOLEAN
  BY <1>1, <1>2, <1>4, <1>5 DEF RawOK
<1>11. c \in DelegateConfig
  BY <1>1, <1>6, <1>7, <1>8, <1>9, <1>10, FunctionIsConfig
<1> QED BY <1>10, <1>11 DEF Complete, c

\* ... and keeps what makes sense already.
LEMMA NormalKeeps ==
  ASSUME NEW raw, NEW base, NEW k \in Keys, raw[k] \notin Useless,
         k \in Numbers => raw[k] \in Lo..Hi[k]
  PROVE  Normal(raw, base)[k] = raw[k]
<1>1. k \in Numbers => raw[k] \in Int
  BY LimitsAssumption DEF Numbers
<1>2. Accepted(k, raw[k]) = raw[k]
  BY <1>1, ClampBounds DEF Accepted
<1> QED BY <1>2 DEF Normal, Useless

LEMMA NormalBackfills ==
  ASSUME NEW raw, NEW base, NEW k \in Keys, raw[k] \in Useless
  PROVE  Normal(raw, base)[k] = base[k]
BY DEF Normal, Useless

\* No value of a complete configuration is useless, except Unset.
LEMMA CompleteValues ==
  ASSUME NEW c, Complete(c), NEW k \in Keys
  PROVE  /\ c[k] \in Useless => k = "stuck" /\ c[k] = Unset
         /\ k \in Numbers /\ c[k] # Unset => c[k] \in Lo..Hi[k]
         /\ c[k] = Unset => k = "stuck"
<1>1. /\ c.hard \in Lo..Hi.hard /\ c.idle \in Lo..Hi.idle
      /\ c.stuck \in Lo..Hi.stuck \cup {Unset} /\ c.exec \in Modes
      /\ c.progress \in BOOLEAN
  BY ConfigIsFunction DEF Complete
<1>2. /\ Lo..Hi.hard \subseteq Nat /\ Lo..Hi.idle \subseteq Nat /\ Lo..Hi.stuck \subseteq Nat
  BY LimitsAssumption
<1>3. /\ Unset \notin Nat /\ Unset \notin Modes /\ Unset \notin BOOLEAN
      /\ Nat \cap Useless = {} /\ Modes \cap Useless = {} /\ BOOLEAN \cap Useless = {}
  BY SpecialAssumption DEF Useless
<1>4. CASE k = "hard"
  BY <1>1, <1>2, <1>3, <1>4
<1>5. CASE k = "idle"
  BY <1>1, <1>2, <1>3, <1>5
<1>6. CASE k = "stuck"
  BY <1>1, <1>2, <1>3, <1>6
<1>7. CASE k = "exec"
  BY <1>1, <1>3, <1>7 DEF Numbers
<1>8. CASE k = "progress"
  BY <1>1, <1>3, <1>8 DEF Numbers
<1> QED BY <1>4, <1>5, <1>6, <1>7, <1>8, KeysAre

LEMMA CompleteIsRaw == ASSUME NEW c, Complete(c) PROVE RawOK(c)
<1>1. /\ Lo..Hi.hard \subseteq Int /\ Lo..Hi.idle \subseteq Int /\ Lo..Hi.stuck \subseteq Int
  BY LimitsAssumption
<1> QED BY <1>1, ConfigIsFunction DEF Complete, RawOK, Useless

LEMMA FileIsRaw == ASSUME NEW f \in File PROVE RawOK(f)
BY FileIsFunction DEF RawOK, Useless, Given

\* What is saved is a file ...
LEMMA WrittenIsFile == ASSUME NEW c, Complete(c) PROVE Written(c) \in File
<1> DEFINE f == Written(c)
<1>1. /\ f = [k \in Keys \cup {"extra"} |-> f[k]]
      /\ \A k \in Keys : k # "extra" => f[k] = IF c[k] = Unset THEN Absent ELSE c[k]
      /\ f["extra"] = Absent
  BY DEF Written
<1>2. /\ "hard" \in Keys /\ "idle" \in Keys /\ "stuck" \in Keys /\ "exec" \in Keys
      /\ "progress" \in Keys
  BY KeysAre
<1>3. RawOK(c)
  BY CompleteIsRaw
<1>4. \A k \in Keys : c[k] \in Useless => c[k] = Unset
  BY CompleteValues
<1> HIDE DEF f
<1>5. f.hard \in Given(Int) /\ f.idle \in Given(Int) /\ f.stuck \in Given(Int)
  BY <1>1, <1>2, <1>3, <1>4 DEF RawOK, Given
<1>6. f.exec \in Given(Modes)
  BY <1>1, <1>2, <1>3, <1>4 DEF RawOK, Given
<1>7. f.progress \in Given(BOOLEAN)
  BY <1>1, <1>2, <1>3, <1>4 DEF RawOK, Given
<1> QED BY <1>1, <1>5, <1>6, <1>7, FunctionIsFile DEF f

\* ... and the process that loads it has the same settings.
LEMMA WrittenReadBack ==
  ASSUME NEW c, Complete(c), c.stuck = Unset => Default.stuck = Unset, NEW k \in Keys
  PROVE  Normal(Written(c), Default)[k] = c[k]
<1>1. k # "extra"
  BY KeysAre
<1>2. CASE c[k] = Unset
  <2>1. Written(c)[k] = Absent /\ k = "stuck"
    BY <1>1, <1>2, CompleteValues DEF Written
  <2>2. Normal(Written(c), Default)[k] = Default[k]
    BY <2>1, NormalBackfills DEF Useless
  <2> QED BY <2>1, <2>2, <1>2
<1>3. CASE c[k] # Unset
  <2>1. Written(c)[k] = c[k]
    BY <1>1, <1>3 DEF Written
  <2>2. c[k] \notin Useless /\ (k \in Numbers => c[k] \in Lo..Hi[k])
    BY <1>3, CompleteValues
  <2> QED BY <2>1, <2>2, NormalKeeps
<1> QED BY <1>2, <1>3

\* A project's file over a configuration gives one.
LEMMA OverlayIsConfig ==
  ASSUME NEW base \in DelegateConfig, NEW f \in File \cup NoFile
  PROVE  Overlay(base, f) \in DelegateConfig
<1>1. CASE ~Readable(f)
  BY <1>1 DEF Overlay
<1>2. CASE Readable(f)
  <2> DEFINE c == Overlay(base, f)
  <2>1. c = [k \in Keys |-> c[k]]
    BY <1>2 DEF Overlay
  <2>2. \A k \in Keys :
          c[k] = IF f[k] = Absent THEN base[k]
                 ELSE IF k = "progress" THEN Shared
                 ELSE IF f[k] = Junk THEN Default[k] ELSE Accepted(k, f[k])
    BY <1>2 DEF Overlay
  <2>3. /\ "hard" \in Numbers /\ "idle" \in Numbers /\ "stuck" \in Numbers
        /\ "exec" \notin Numbers /\ "exec" \in Keys /\ "progress" \in Keys
        /\ Numbers \subseteq Keys
    BY DEF Keys, Numbers
  <2>4. f \in File
    BY <1>2, FilesAreReadable
  <2>5. /\ f.hard \in Int \cup {Absent, Junk} /\ f.idle \in Int \cup {Absent, Junk}
        /\ f.stuck \in Int \cup {Absent, Junk} /\ f.exec \in Modes \cup {Absent, Junk}
    BY <2>4, FileIsFunction DEF Given
  <2>6. /\ \A k \in Numbers : \A v \in Int : Accepted(k, v) \in Lo..Hi[k]
        /\ \A v : Accepted("exec", v) = v
    BY <2>3, ClampBounds DEF Accepted
  <2>7. /\ base.hard \in Lo..Hi.hard /\ Default.hard \in Lo..Hi.hard
        /\ base.idle \in Lo..Hi.idle /\ Default.idle \in Lo..Hi.idle
        /\ base.stuck \in Lo..Hi.stuck \cup {Unset}
        /\ Default.stuck \in Lo..Hi.stuck \cup {Unset}
        /\ base.exec \in Modes /\ Default.exec \in Modes
        /\ base.progress \in BOOLEAN \cup {Shared}
    BY ConfigIsFunction, DefaultAssumption
  <2> HIDE DEF c
  <2>8. c.hard \in Lo..Hi.hard
    BY <2>2, <2>3, <2>5, <2>6, <2>7
  <2>9. c.idle \in Lo..Hi.idle
    BY <2>2, <2>3, <2>5, <2>6, <2>7
  <2>10. c.stuck \in Lo..Hi.stuck \cup {Unset}
    BY <2>2, <2>3, <2>5, <2>6, <2>7
  <2>11. c.exec \in Modes
    BY <2>2, <2>3, <2>5, <2>6, <2>7
  <2>12. c.progress \in BOOLEAN \cup {Shared}
    BY <2>2, <2>3, <2>7
  <2> QED BY <2>1, <2>8, <2>9, <2>10, <2>11, <2>12, FunctionIsConfig DEF c
<1> QED BY <1>1, <1>2

\* What saveProjectConfig writes is a file.
LEMMA MergedIsFile ==
  ASSUME NEW f \in File \cup NoFile, NEW k \in Numbers, NEW v \in Int
  PROVE  Merged(f, k, v) \in File
<1> DEFINE g == Merged(f, k, v)
<1>1. Clamp(k, v) \in Int
  BY ClampBounds, LimitsAssumption DEF Numbers
<1>2. /\ k \in Keys /\ k \notin {"exec", "progress", "extra"}
      /\ "hard" \in Keys /\ "idle" \in Keys /\ "stuck" \in Keys /\ "exec" \in Keys
      /\ "progress" \in Keys
  BY DEF Keys, Numbers
<1>3. CASE Readable(f)
  <2>1. /\ f \in File /\ DOMAIN f = Keys \cup {"extra"}
        /\ f = [n \in Keys \cup {"extra"} |-> f[n]]
    BY <1>3, FilesAreReadable, FileIsFunction
  <2>2. /\ g = [n \in Keys \cup {"extra"} |-> g[n]]
        /\ \A n \in Keys \cup {"extra"} : g[n] = IF n = k THEN Clamp(k, v) ELSE f[n]
    BY <1>3, <2>1 DEF Merged
  <2> HIDE DEF g
  <2>3. /\ g.hard \in Given(Int) /\ g.idle \in Given(Int) /\ g.stuck \in Given(Int)
        /\ g.exec \in Given(Modes) /\ g.progress \in Given(BOOLEAN)
        /\ g.extra \in {TRUE, Absent}
    BY <1>1, <1>2, <2>1, <2>2, FileIsFunction DEF Given
  <2> QED BY <2>2, <2>3, FunctionIsFile DEF g
<1>4. CASE ~Readable(f)
  <2>1. /\ g = [n \in Keys \cup {"extra"} |-> g[n]]
        /\ \A n \in Keys \cup {"extra"} : g[n] = IF n = k THEN Clamp(k, v) ELSE Absent
    BY <1>4 DEF Merged
  <2> HIDE DEF g
  <2>2. /\ g.hard \in Given(Int) /\ g.idle \in Given(Int) /\ g.stuck \in Given(Int)
        /\ g.exec \in Given(Modes) /\ g.progress \in Given(BOOLEAN)
        /\ g.extra \in {TRUE, Absent}
    BY <1>1, <1>2, <2>1 DEF Given
  <2> QED BY <2>1, <2>2, FunctionIsFile DEF g
<1> QED BY <1>3, <1>4

\* The settings of a process are complete.
LEMMA SettingsComplete ==
  ASSUME TypeOK, NEW p \in Procs
  PROVE  /\ Complete(Settings(p))
         /\ \A k \in Keys : Settings(p)[k] = IF k = "progress" THEN Block(p) ELSE live[p][k]
<1>1. live[p] \in DelegateConfig /\ defaults[p] \in BOOLEAN
  BY DEF TypeOK
<1>2. Block(p) \in BOOLEAN
  BY <1>1, ConfigIsFunction DEF Block
<1>3. \A k \in Keys : Settings(p)[k] = IF k = "progress" THEN Block(p) ELSE live[p][k]
  BY <1>1, ConfigIsFunction DEF Settings
<1>4. Settings(p) \in DelegateConfig /\ Settings(p).progress \in BOOLEAN
  BY <1>1, <1>2 DEF Settings, DelegateConfig
<1> QED BY <1>3, <1>4 DEF Complete

LEMMA BaseComplete == ASSUME TypeOK, NEW p \in Procs PROVE Complete(Base(p))
<1>1. defaults[p] \in BOOLEAN
  BY DEF TypeOK
<1> QED BY <1>1, DefaultAssumption DEF Base, Complete, DelegateConfig

------------------------------------------------------------------------------
(* The edits of a process                                                  *)

\* The settings of a process with one more.
LEMMA PatchedIsRaw ==
  ASSUME TypeOK, NEW p \in Procs, NEW k \in Keys, NEW v,
         \/ v \in Useless
         \/ k \in Numbers /\ v \in Int
         \/ k = "exec" /\ v \in Modes
         \/ k = "progress" /\ v \in BOOLEAN
  PROVE  /\ RawOK([Settings(p) EXCEPT ![k] = v])
         /\ \A l \in Keys \ {k} : [Settings(p) EXCEPT ![k] = v][l] = Settings(p)[l]
<1> DEFINE c == Settings(p)
           raw == [Settings(p) EXCEPT ![k] = v]
<1>1. Complete(c)
  BY SettingsComplete
<1>2. RawOK(c) /\ DOMAIN c = Keys
  BY <1>1, CompleteIsRaw, ConfigIsFunction DEF Complete
<1>3. \A l \in Keys : raw[l] = IF l = k THEN v ELSE c[l]
  BY <1>2
<1>4. /\ "hard" \in Keys /\ "idle" \in Keys /\ "stuck" \in Keys /\ "exec" \in Keys
      /\ "progress" \in Keys /\ "exec" \notin Numbers /\ "progress" \notin Numbers
      /\ Numbers = {"hard", "idle", "stuck"}
  BY DEF Keys, Numbers
<1> HIDE DEF c, raw
<1>5. raw.hard \in Int \cup Useless /\ raw.idle \in Int \cup Useless /\ raw.stuck \in Int \cup Useless
  BY <1>2, <1>3, <1>4 DEF RawOK
<1>6. raw.exec \in Modes \cup Useless
  BY <1>2, <1>3, <1>4 DEF RawOK
<1>7. raw.progress \in BOOLEAN \cup Useless
  BY <1>2, <1>3, <1>4 DEF RawOK
<1> QED BY <1>3, <1>5, <1>6, <1>7 DEF RawOK, raw, c

\* What an edit in the dashboard or by a command does: one setting of the process,
\* in memory and in the file.
Edited(p, k) ==
  \E c : /\ Complete(c)
         /\ c.stuck = Unset => Default.stuck = Unset
         /\ \A l \in Keys \ {k} : c[l] = Settings(p)[l]
         /\ live' = [live EXCEPT ![p] = c] /\ user' = Written(c)
         /\ behind' = up \ {p} /\ edits < MaxEdits /\ edits' = edits + 1
         /\ UNCHANGED <<project, up, defaults, run>>

LEMMA SaveEdits ==
  ASSUME TypeOK, UnsetIsDefault, NEW p \in Procs, NEW k \in Keys, NEW v,
         \/ v \in Useless
         \/ k \in Numbers /\ v \in Int
         \/ k = "exec" /\ v \in Modes
         \/ k = "progress" /\ v \in BOOLEAN,
         Save(p, [Settings(p) EXCEPT ![k] = v])
  PROVE  Edited(p, k)
<1> DEFINE raw == [Settings(p) EXCEPT ![k] = v]
           c == Normal(raw, Base(p))
<1>1. RawOK(raw) /\ \A l \in Keys \ {k} : raw[l] = Settings(p)[l]
  BY PatchedIsRaw
<1>2. Complete(Settings(p)) /\ Complete(Base(p)) /\ Base(p).stuck = Default.stuck
  <2>1. Base(p).stuck = Default.stuck
    BY DefaultAssumption DEF Base, DelegateConfig
  <2> QED BY <2>1, SettingsComplete, BaseComplete
<1> HIDE DEF raw
<1>3. Complete(c)
  BY <1>1, <1>2, NormalComplete
<1>4. "stuck" \in Keys /\ "stuck" \in Numbers
  BY DEF Keys, Numbers
<1>5. c.stuck = Unset => Default.stuck = Unset
  <2>1. CASE raw["stuck"] \in Useless
    BY <1>2, <1>4, <2>1, NormalBackfills
  <2>2. CASE raw["stuck"] \notin Useless
    <3>1. raw["stuck"] \in Int
      BY <1>1, <2>2 DEF RawOK
    <3>2. c["stuck"] \in Lo..Hi["stuck"]
      BY <1>4, <2>2, <3>1, ClampBounds DEF Normal, Accepted, Useless
    <3>3. Unset \notin Lo..Hi["stuck"]
      BY LimitsAssumption, SpecialAssumption
    <3> QED BY <3>2, <3>3
  <2> QED BY <2>1, <2>2
<1>6. ASSUME NEW l \in Keys \ {k} PROVE c[l] = Settings(p)[l]
  <2>1. raw[l] = Settings(p)[l]
    BY <1>1
  <2>2. CASE Settings(p)[l] \in Useless
    <3>1. l = "stuck" /\ Settings(p)[l] = Unset
      BY <1>2, <2>2, CompleteValues
    <3>2. live[p].stuck = Unset
      BY <3>1, <1>4, SettingsComplete
    <3>3. Default.stuck = Unset
      BY <3>2 DEF UnsetIsDefault
    <3>4. c[l] = Base(p)[l]
      BY <2>1, <2>2, NormalBackfills
    <3> QED BY <1>2, <3>1, <3>3, <3>4
  <2>3. CASE Settings(p)[l] \notin Useless
    <3>1. l \in Numbers => Settings(p)[l] \in Lo..Hi[l]
      BY <1>2, <2>3, CompleteValues DEF Useless
    <3> QED BY <2>1, <2>3, <3>1, NormalKeeps
  <2> QED BY <2>2, <2>3
<1> HIDE DEF c
<1>7. /\ live' = [live EXCEPT ![p] = c] /\ user' = Written(c)
      /\ behind' = up \ {p} /\ edits < MaxEdits /\ edits' = edits + 1
      /\ UNCHANGED <<project, up, defaults, run>>
  BY DEF Save, c, raw
<1> QED BY <1>3, <1>5, <1>6, <1>7 DEF Edited

LEMMA UserEdits ==
  ASSUME TypeOK, UnsetIsDefault, NEW p \in Procs, UserEdit(p)
  PROVE  p \in up /\ \E k \in Keys : Edited(p, k)
<1>1. "exec" \in Keys /\ "progress" \in Keys /\ Numbers \subseteq Keys
  BY DEF Keys, Numbers
<1>2. ASSUME NEW k \in Numbers, NEW v \in Inputs, PatchConfig(p, k, v)
      PROVE  p \in up /\ Edited(p, k)
  <2>1. v \in Int /\ k \in Keys
    BY <1>1, InputsAssumption
  <2>2. Save(p, [Settings(p) EXCEPT ![k] = v])
    BY <1>2 DEF PatchConfig
  <2> QED BY <2>1, <2>2, SaveEdits DEF Save
<1>3. ASSUME NEW k \in Keys \ Numbers, PatchOther(p, k)
      PROVE  p \in up /\ Edited(p, k)
  <2>1. Save(p, [Settings(p) EXCEPT ![k] = Junk]) /\ Junk \in Useless
    BY <1>3 DEF PatchOther, Useless
  <2> QED BY <2>1, SaveEdits DEF Save
<1>4. ASSUME NEW mode \in Modes, PatchExecution(p, mode)
      PROVE  p \in up /\ Edited(p, "exec")
  <2>1. Save(p, [Settings(p) EXCEPT !["exec"] = mode])
    BY <1>4 DEF PatchExecution
  <2> QED BY <1>1, <2>1, SaveEdits DEF Save
<1>5. ASSUME NEW on \in BOOLEAN, PatchProgress(p, on)
      PROVE  p \in up /\ Edited(p, "progress")
  <2>1. Save(p, [Settings(p) EXCEPT !["progress"] = on])
    BY <1>5 DEF PatchProgress
  <2> QED BY <1>1, <2>1, SaveEdits DEF Save
<1> QED BY <1>1, <1>2, <1>3, <1>4, <1>5 DEF UserEdit

------------------------------------------------------------------------------
(* The invariant                                                           *)

\* The settings of process p are what a restart would find.
InStepAt(p) ==
  \A k \in Keys : \/ Settings(p)[k] = Loaded[k]
                  \/ k = "progress" /\ live[p].progress = Shared

\* Timeouts of a run, as the code allows them.
LimitsOK(limits) ==
  /\ limits.hard \in Lo..Hi["hard"]
  /\ limits.stuck \in Lo..limits.hard
  /\ limits.idle \in Lo..limits.hard
  /\ limits.idle > Lo => 2 * limits.idle <= limits.hard

LEMMA InitInv == Init => IInv
<1> SUFFICES ASSUME Init PROVE IInv
  OBVIOUS
<1>1. TypeOK
  <2>1. user \in File \cup NoFile /\ project \in [Projects -> File \cup NoFile]
    BY FilesAssumption DEF Init
  <2>2. live \in [Procs -> DelegateConfig] /\ defaults \in [Procs -> BOOLEAN]
    BY DefaultAssumption DEF Init
  <2> QED BY <2>1, <2>2, EditsAssumption DEF Init, TypeOK
<1>2. WatchdogsInsideHard
  BY <1>1 DEF Init, WatchdogsInsideHard
<1>3. InStep /\ UnsetIsDefault
  BY DEF Init, InStep, UnsetIsDefault
<1> QED BY <1>1, <1>2, <1>3 DEF IInv

\* While files and memory stay, a process stays in step.
LEMMA StaysInStep ==
  ASSUME NEW p \in Procs, InStepAt(p), Loaded' = Loaded, live'[p] = live[p],
         defaults'[p] = defaults[p] \/ live[p].progress = Shared, TypeOK, TypeOK'
  PROVE  InStepAt(p)'
<1> SUFFICES ASSUME NEW k \in Keys, ~(k = "progress" /\ live[p].progress = Shared)
             PROVE  Settings(p)'[k] = Loaded'[k]
  BY DEF InStepAt
<1>1. Settings(p)[k] = Loaded[k]
  BY DEF InStepAt
<1>2. /\ live'[p] \in DelegateConfig /\ DOMAIN live'[p] = Keys
      /\ live[p] \in DelegateConfig /\ DOMAIN live[p] = Keys
  BY ConfigIsFunction DEF TypeOK
<1>3. Settings(p)'[k] = IF k = "progress" THEN Block(p)' ELSE live'[p][k]
  BY <1>2 DEF Settings
<1>4. Settings(p)[k] = IF k = "progress" THEN Block(p) ELSE live[p][k]
  BY <1>2 DEF Settings
<1>5. k = "progress" => Block(p)' = Block(p)
  BY DEF Block
<1> QED BY <1>1, <1>3, <1>4, <1>5

\* A process that starts has what the file says, and the defaults' block if there
\* is no file to read.
LEMMA StartKeeps ==
  ASSUME IInv, NEW p \in Procs, Start(p) PROVE IInv'
<1>1. /\ TypeOK /\ p \notin up /\ up' = up \cup {p} /\ behind' = behind \ {p}
      /\ defaults' = [defaults EXCEPT ![p] = Default.progress]
      /\ UNCHANGED <<project, run, edits>>
  BY DEF IInv, Start
<1> DEFINE shared == [Default EXCEPT !.progress = Shared]
<1>2. /\ shared \in DelegateConfig /\ shared.stuck = Default.stuck /\ shared.progress = Shared
      /\ \A k \in Keys : k # "progress" => shared[k] = Default[k]
  <2>1. DOMAIN Default = Keys
    BY DefaultAssumption, ConfigIsFunction
  <2>2. shared \in DelegateConfig /\ shared.stuck = Default.stuck /\ shared.progress = Shared
    BY DefaultAssumption DEF DelegateConfig
  <2> QED BY <2>1, <2>2
<1>3. Complete(Default)
  BY DefaultAssumption DEF Complete
<1> HIDE DEF shared
<1>4. \E c \in DelegateConfig :
        /\ live' = [live EXCEPT ![p] = c]
        /\ c.stuck = Unset => Default.stuck = Unset
        /\ \/ c = shared /\ Loaded = Default
           \/ Complete(c) /\ c = Loaded
  <2>1. CASE Recover(p)
    <3>1. live' = [live EXCEPT ![p] = shared] /\ ~Readable(user)
      BY <2>1 DEF Recover, Broken, Readable, NoFile, shared
    <3> QED BY <1>2, <3>1 DEF Loaded
  <2>2. CASE Load(p) /\ user = Missing
    <3>1. live' = [live EXCEPT ![p] = shared] /\ ~Readable(user)
      BY <2>2 DEF Load, Readable, NoFile, shared
    <3> QED BY <1>2, <3>1 DEF Loaded
  <2>3. CASE Load(p) /\ user # Missing
    <3>1. live' = [live EXCEPT ![p] = Normal(user, Default)] /\ Readable(user)
      BY <2>3 DEF Load, Broken, Readable, NoFile
    <3>2. user \in File
      BY <1>1, <3>1, FilesAreReadable DEF TypeOK
    <3>3. RawOK(user)
      BY <3>2, FileIsRaw
    <3>4. Complete(Normal(user, Default))
      BY <1>3, <3>3, NormalComplete
    <3>5. Normal(user, Default) = Loaded
      BY <3>1 DEF Loaded
    <3>6. Normal(user, Default).stuck = Unset => Default.stuck = Unset
      <4>1. "stuck" \in Numbers /\ "stuck" \in Keys
        BY DEF Numbers, Keys
      <4>2. CASE user["stuck"] \in Useless
        BY <4>1, <4>2, NormalBackfills
      <4>3. CASE user["stuck"] \notin Useless
        <5>1. user["stuck"] \in Int
          BY <3>3, <4>3 DEF RawOK
        <5>2. Normal(user, Default)["stuck"] \in Lo..Hi["stuck"]
          BY <4>1, <4>3, <5>1, ClampBounds DEF Normal, Accepted, Useless
        <5>3. Unset \notin Lo..Hi["stuck"]
          BY LimitsAssumption, SpecialAssumption
        <5> QED BY <5>2, <5>3
      <4> QED BY <4>2, <4>3
    <3> HIDE DEF Loaded
    <3> QED BY <3>1, <3>4, <3>5, <3>6 DEF Complete
  <2> QED BY <2>1, <2>2, <2>3 DEF Start
<1>5. PICK c \in DelegateConfig :
        /\ live' = [live EXCEPT ![p] = c]
        /\ c.stuck = Unset => Default.stuck = Unset
        /\ \/ c = shared /\ Loaded = Default
           \/ Complete(c) /\ c = Loaded
  BY <1>4
<1>6. Loaded' = Loaded /\ user' \in File \cup NoFile
  <2>1. CASE Recover(p)
    BY <2>1 DEF Recover, Broken, Loaded, Readable, NoFile
  <2>2. CASE Load(p)
    BY <1>1, <2>2 DEF Load, Loaded, TypeOK
  <2> QED BY <2>1, <2>2 DEF Start
<1>7. TypeOK'
  <2>1. live' \in [Procs -> DelegateConfig] /\ defaults' \in [Procs -> BOOLEAN]
    BY <1>1, <1>5, DefaultAssumption DEF TypeOK
  <2> QED BY <1>1, <1>6, <2>1 DEF TypeOK
<1>8. WatchdogsInsideHard'
  BY <1>1, <1>7 DEF IInv, WatchdogsInsideHard
<1>9. live'[p] = c /\ defaults'[p] = Default.progress
  BY <1>1, <1>5 DEF TypeOK
<1>10. ASSUME NEW q \in Procs, q # p
       PROVE  live'[q] = live[q] /\ defaults'[q] = defaults[q]
  BY <1>1, <1>5, <1>10 DEF TypeOK
<1>11. InStep'
  <2> SUFFICES ASSUME NEW q \in up' \ behind' PROVE InStepAt(q)'
    BY DEF InStep, InStepAt
  <2>1. q \in Procs
    BY <1>7 DEF TypeOK
  <2>2. CASE q # p
    <3>1. InStepAt(q)
      BY <1>1, <2>2 DEF IInv, InStep, InStepAt
    <3> QED BY <1>1, <1>6, <1>7, <1>10, <2>1, <2>2, <3>1, StaysInStep
  <2>3. CASE q = p
    <3> SUFFICES ASSUME NEW k \in Keys, ~(k = "progress" /\ c.progress = Shared)
                 PROVE  Settings(p)'[k] = Loaded[k]
      BY <1>6, <1>9, <2>3 DEF InStepAt
    <3>1. DOMAIN c = Keys
      BY ConfigIsFunction
    <3>2. Settings(p)'[k] = IF k = "progress" THEN Block(p)' ELSE c[k]
      BY <1>9, <3>1 DEF Settings
    <3>3. k = "progress" => Block(p)' = c[k]
      BY <1>9 DEF Block
    <3>4. c[k] = Loaded[k]
      BY <1>2, <1>5
    <3> QED BY <3>2, <3>3, <3>4
  <2> QED BY <2>2, <2>3
<1>12. UnsetIsDefault'
  BY <1>5, <1>9, <1>10 DEF IInv, UnsetIsDefault
<1> QED BY <1>7, <1>8, <1>11, <1>12 DEF IInv

LEMMA StopKeeps ==
  ASSUME IInv, NEW p \in Procs, Stop(p) PROVE IInv'
<1>1. /\ TypeOK /\ up' = up \ {p} /\ live' = [live EXCEPT ![p] = Default]
      /\ defaults' = [defaults EXCEPT ![p] = Default.progress]
      /\ UNCHANGED <<files, run, edits, behind>>
  BY DEF IInv, Stop
<1>2. TypeOK'
  <2>1. live' \in [Procs -> DelegateConfig] /\ defaults' \in [Procs -> BOOLEAN]
    BY <1>1, DefaultAssumption DEF TypeOK
  <2> QED BY <1>1, <2>1 DEF TypeOK, files
<1>3. WatchdogsInsideHard'
  BY <1>1, <1>2 DEF IInv, WatchdogsInsideHard
<1>4. ASSUME NEW q \in Procs, q # p
      PROVE  live'[q] = live[q] /\ defaults'[q] = defaults[q]
  BY <1>1, <1>4 DEF TypeOK
<1>5. InStep'
  <2> SUFFICES ASSUME NEW q \in up' \ behind' PROVE InStepAt(q)'
    BY DEF InStep, InStepAt
  <2>1. q \in Procs /\ q # p /\ q \in up \ behind
    BY <1>1 DEF TypeOK
  <2>2. InStepAt(q)
    BY <2>1 DEF IInv, InStep, InStepAt
  <2>3. Loaded' = Loaded
    BY <1>1 DEF Loaded, files
  <2> QED BY <1>1, <1>2, <1>4, <2>1, <2>2, <2>3, StaysInStep
<1>6. UnsetIsDefault'
  BY <1>1, <1>4 DEF IInv, UnsetIsDefault, TypeOK
<1> QED BY <1>2, <1>3, <1>5, <1>6 DEF IInv

\* After an edit, the process that made it is the one in step: the file it wrote
\* reads back as the settings it has.
LEMMA EditKeeps ==
  ASSUME IInv, NEW p \in Procs, NEW k \in Keys, Edited(p, k) PROVE IInv'
<1>1. PICK c :
         /\ Complete(c)
         /\ c.stuck = Unset => Default.stuck = Unset
         /\ live' = [live EXCEPT ![p] = c] /\ user' = Written(c)
         /\ behind' = up \ {p} /\ edits < MaxEdits /\ edits' = edits + 1
         /\ UNCHANGED <<project, up, defaults, run>>
  BY DEF Edited
<1>2. TypeOK
  BY DEF IInv
<1>3. TypeOK'
  <2>1. user' \in File
    BY <1>1, WrittenIsFile
  <2>2. live' \in [Procs -> DelegateConfig]
    BY <1>1, <1>2 DEF TypeOK, Complete
  <2>3. edits' \in 0..MaxEdits
    BY <1>1, <1>2, EditsAssumption DEF TypeOK
  <2> QED BY <1>1, <1>2, <2>1, <2>2, <2>3 DEF TypeOK
<1>4. WatchdogsInsideHard'
  BY <1>1, <1>3 DEF IInv, WatchdogsInsideHard
<1>5. live'[p] = c /\ \A q \in Procs \ {p} : live'[q] = live[q]
  BY <1>1, <1>2 DEF TypeOK
<1>6. InStep'
  <2> SUFFICES ASSUME NEW q \in up' \ behind', NEW l \in Keys
               PROVE  Settings(q)'[l] = Loaded'[l]
    BY DEF InStep
  <2>1. q = p
    BY <1>1
  <2>2. Readable(user') /\ user' = Written(c)
    BY <1>1, WrittenIsFile, FilesAreReadable
  <2>3. Loaded'[l] = c[l]
    <3>1. Loaded' = Normal(Written(c), Default)
      BY <2>2 DEF Loaded
    <3> QED BY <1>1, <3>1, WrittenReadBack
  <2>4. DOMAIN c = Keys /\ c.progress \in BOOLEAN /\ c.progress # Shared
    BY <1>1, ConfigIsFunction, SpecialAssumption DEF Complete
  <2>5. Block(p)' = c["progress"]
    BY <1>5, <2>4 DEF Block
  <2>6. Settings(p)'[l] = c[l]
    BY <1>5, <2>4, <2>5 DEF Settings
  <2> QED BY <2>1, <2>3, <2>6
<1>7. UnsetIsDefault'
  BY <1>1, <1>5 DEF IInv, UnsetIsDefault
<1> QED BY <1>3, <1>4, <1>6, <1>7 DEF IInv

LEMMA PatchProjectKeeps ==
  ASSUME IInv, NEW p \in Procs, NEW j \in Projects, NEW k \in Numbers, NEW v \in Inputs,
         PatchProject(p, j, k, v)
  PROVE  IInv'
<1>1. /\ TypeOK /\ edits < MaxEdits /\ edits' = edits + 1
      /\ project' = [project EXCEPT ![j] = Merged(project[j], k, v)]
      /\ UNCHANGED <<user, memory, run, behind>>
  BY DEF IInv, PatchProject
<1>2. TypeOK'
  <2>1. project[j] \in File \cup NoFile /\ v \in Int
    BY <1>1, InputsAssumption DEF TypeOK
  <2>2. Merged(project[j], k, v) \in File
    BY <2>1, MergedIsFile
  <2>3. project' \in [Projects -> File \cup NoFile]
    BY <1>1, <2>2 DEF TypeOK
  <2>4. edits' \in 0..MaxEdits
    BY <1>1, EditsAssumption DEF TypeOK
  <2> QED BY <1>1, <2>3, <2>4 DEF TypeOK, memory
<1>3. WatchdogsInsideHard'
  BY <1>1, <1>2 DEF IInv, WatchdogsInsideHard
<1>4. InStep'
  BY <1>1 DEF IInv, InStep, Settings, Block, Loaded, memory
<1>5. UnsetIsDefault'
  BY <1>1 DEF IInv, UnsetIsDefault, memory
<1> QED BY <1>2, <1>3, <1>4, <1>5 DEF IInv

LEMMA ByHandKeeps ==
  ASSUME IInv, ByHand PROVE IInv'
<1>1. CASE \E f \in UserFiles : WriteUser(f)
  <2>1. /\ TypeOK /\ user' \in UserFiles /\ edits < MaxEdits /\ edits' = edits + 1
        /\ behind' = up /\ UNCHANGED <<project, memory, run>>
    BY <1>1 DEF IInv, WriteUser
  <2>2. TypeOK'
    BY <2>1, FilesAssumption, EditsAssumption DEF TypeOK, memory
  <2>3. WatchdogsInsideHard'
    BY <2>1, <2>2 DEF IInv, WatchdogsInsideHard
  <2>4. InStep' /\ UnsetIsDefault'
    BY <2>1 DEF IInv, InStep, UnsetIsDefault, memory
  <2> QED BY <2>2, <2>3, <2>4 DEF IInv
<1>2. CASE \E j \in Projects, f \in ProjectFiles : WriteProject(j, f)
  <2>1. PICK j \in Projects, f \in ProjectFiles :
          /\ TypeOK /\ edits < MaxEdits /\ edits' = edits + 1
          /\ project' = [project EXCEPT ![j] = f] /\ UNCHANGED <<user, memory, run, behind>>
    BY <1>2 DEF IInv, WriteProject
  <2>2. project' \in [Projects -> File \cup NoFile]
    BY <2>1, FilesAssumption DEF TypeOK
  <2>3. TypeOK'
    BY <2>1, <2>2, EditsAssumption DEF TypeOK, memory
  <2>4. WatchdogsInsideHard'
    BY <2>1, <2>3 DEF IInv, WatchdogsInsideHard
  <2>5. InStep'
    BY <2>1 DEF IInv, InStep, Settings, Block, Loaded, memory
  <2>6. UnsetIsDefault'
    BY <2>1 DEF IInv, UnsetIsDefault, memory
  <2> QED BY <2>3, <2>4, <2>5, <2>6 DEF IInv
<1> QED BY <1>1, <1>2 DEF ByHand

\* What laying a project's file over the settings does to memory.
Laid(p, j) ==
  /\ defaults' = [defaults EXCEPT ![p] = Overlaid(@, project[j])]
  /\ UNCHANGED <<files, up, live, edits, behind>>

LEMMA LaidKeeps ==
  ASSUME IInv, NEW p \in Procs, NEW j \in Projects, Laid(p, j)
  PROVE  TypeOK' /\ InStep' /\ UnsetIsDefault'
<1>1. /\ TypeOK /\ UNCHANGED <<files, up, live, edits, behind>>
      /\ defaults' = [defaults EXCEPT ![p] = Overlaid(defaults[p], project[j])]
  BY DEF IInv, Laid
<1>2. Overlaid(defaults[p], project[j]) \in BOOLEAN
  BY <1>1 DEF Overlaid, TypeOK
<1>3. TypeOK'
  BY <1>1, <1>2 DEF TypeOK, files
<1>4. InStep'
  <2> SUFFICES ASSUME NEW q \in up' \ behind' PROVE InStepAt(q)'
    BY DEF InStep, InStepAt
  <2>1. q \in Procs /\ q \in up \ behind /\ live'[q] = live[q] /\ Loaded' = Loaded
    BY <1>1 DEF TypeOK, Loaded, files
  <2>2. InStepAt(q)
    BY <2>1 DEF IInv, InStep, InStepAt
  <2> SUFFICES ASSUME NEW k \in Keys, ~(k = "progress" /\ live[q].progress = Shared)
               PROVE  Settings(q)'[k] = Loaded[k]
    BY <2>1 DEF InStepAt
  <2>3. Settings(q)[k] = Loaded[k]
    BY <2>2 DEF InStepAt
  <2>4. DOMAIN live[q] = Keys
    BY <1>1, <2>1, ConfigIsFunction DEF TypeOK
  <2>5. /\ Settings(q)[k] = IF k = "progress" THEN Block(q) ELSE live[q][k]
        /\ Settings(q)'[k] = IF k = "progress" THEN Block(q)' ELSE live[q][k]
    BY <2>1, <2>4 DEF Settings
  <2>6. k = "progress" => Block(q)' = Block(q)
    BY <2>1 DEF Block
  <2> QED BY <2>3, <2>5, <2>6
<1>5. UnsetIsDefault'
  BY <1>1 DEF IInv, UnsetIsDefault
<1> QED BY <1>3, <1>4, <1>5

LEMMA LookKeeps ==
  ASSUME IInv, NEW p \in Procs, NEW j \in Projects, Look(p, j) PROVE IInv'
<1>1. Laid(p, j) /\ UNCHANGED run
  BY DEF Look, Laid
<1>2. TypeOK' /\ InStep' /\ UnsetIsDefault'
  BY <1>1, LaidKeeps
<1> QED BY <1>1, <1>2 DEF IInv, WatchdogsInsideHard

\* The arithmetic of resolveRunTimeouts.
LEMMA ResolvedLimits ==
  ASSUME NEW p, NEW j, NEW c \in DelegateConfig, NEW asked \in Inputs \cup {Unset}
  PROVE  LimitsOK(Resolved(p, j, c, asked))
<1> DEFINE hard == IF asked = Unset THEN c.hard ELSE Clamp("hard", asked)
<1>1. /\ c.hard \in Lo..Hi.hard /\ c.idle \in Lo..Hi.idle
      /\ c.stuck \in Lo..Hi.stuck \cup {Unset}
  BY ConfigIsFunction
<1>2. hard \in Lo..Hi["hard"]
  <2>1. "hard" \in Numbers
    BY DEF Numbers
  <2>2. CASE asked = Unset
    BY <1>1, <2>2
  <2>3. CASE asked # Unset
    <3>1. asked \in Int
      BY <2>3, InputsAssumption
    <3> QED BY <2>1, <2>3, <3>1, ClampBounds
  <2> QED BY <2>2, <2>3
<1>3. /\ Resolved(p, j, c, asked).hard = hard
      /\ Resolved(p, j, c, asked).idle = IdleLimit(c, hard)
      /\ Resolved(p, j, c, asked).stuck = StuckLimit(c, hard)
  BY DEF Resolved
<1> HIDE DEF hard
<1>4. Lo \in Nat \ {0} /\ Lo <= Hi.hard /\ Hi.hard \in Nat /\ Hi.idle \in Nat /\ Hi.stuck \in Nat
  BY LimitsAssumption
<1>5. StuckLimit(c, hard) \in Lo..hard
  BY <1>1, <1>2, <1>4 DEF StuckLimit, Least
<1>6. hard \in Nat /\ hard \div 2 \in Nat /\ 2 * (hard \div 2) <= hard
  BY <1>2, <1>4
<1>7. /\ IdleLimit(c, hard) \in Lo..hard
      /\ IdleLimit(c, hard) > Lo => 2 * IdleLimit(c, hard) <= hard
  <2> DEFINE half == hard \div 2
  <2>1. half \in Nat /\ 2 * half <= hard /\ hard >= Lo
    BY <1>2, <1>4, <1>6
  <2>2. IdleLimit(c, hard) = Least(c.idle, IF half < Lo THEN Lo ELSE half)
    BY DEF IdleLimit
  <2> HIDE DEF half
  <2> QED BY <1>1, <1>2, <1>4, <2>1, <2>2 DEF Least
<1> QED BY <1>2, <1>3, <1>5, <1>7 DEF LimitsOK

LEMMA PrepareKeeps ==
  ASSUME IInv, NEW p \in Procs, NEW j \in Projects, NEW asked \in Inputs \cup {Unset},
         Prepare(p, j, asked)
  PROVE  IInv'
<1>1. Laid(p, j) /\ run' = Resolved(p, j, Overlay(live[p], project[j]), asked)
  BY DEF Prepare, Laid
<1>2. TypeOK' /\ InStep' /\ UnsetIsDefault'
  BY <1>1, LaidKeeps
<1>3. live[p] \in DelegateConfig /\ project[j] \in File \cup NoFile
  BY DEF IInv, TypeOK
<1>4. Overlay(live[p], project[j]) \in DelegateConfig
  BY <1>3, OverlayIsConfig
<1>5. LimitsOK(run')
  BY <1>1, <1>4, ResolvedLimits
<1> QED BY <1>2, <1>5 DEF IInv, WatchdogsInsideHard, LimitsOK

LEMMA NextInv == IInv /\ [Next]_vars => IInv'
<1> SUFFICES ASSUME IInv, [Next]_vars PROVE IInv'
  OBVIOUS
<1>1. CASE ByHand
  BY <1>1, ByHandKeeps
<1>2. ASSUME NEW p \in Procs, Process(p) PROVE IInv'
  <2>1. CASE Start(p)
    BY <2>1, StartKeeps
  <2>2. CASE Stop(p)
    BY <2>2, StopKeeps
  <2>3. CASE UserEdit(p)
    <3>1. TypeOK /\ UnsetIsDefault
      BY DEF IInv
    <3> QED BY <2>3, <3>1, UserEdits, EditKeeps
  <2>4. ASSUME NEW j \in Projects, Look(p, j) PROVE IInv'
    BY <2>4, LookKeeps
  <2>5. ASSUME NEW j \in Projects, NEW asked \in Inputs \cup {Unset}, Prepare(p, j, asked)
        PROVE  IInv'
    BY <2>5, PrepareKeeps
  <2>6. ASSUME NEW j \in Projects, NEW k \in Numbers, NEW v \in Inputs, PatchProject(p, j, k, v)
        PROVE  IInv'
    BY <2>6, PatchProjectKeeps
  <2> QED BY <1>2, <2>1, <2>2, <2>3, <2>4, <2>5, <2>6 DEF Process
<1>3. CASE UNCHANGED vars
  <2>1. UNCHANGED <<user, project, up, live, defaults, run, edits, behind>>
    BY <1>3 DEF vars, files, memory
  <2>2. TypeOK'
    BY <2>1 DEF IInv, TypeOK
  <2>3. WatchdogsInsideHard'
    BY <2>1, <2>2 DEF IInv, WatchdogsInsideHard
  <2>4. InStep'
    BY <2>1 DEF IInv, InStep, Settings, Block, Loaded
  <2>5. UnsetIsDefault'
    BY <2>1 DEF IInv, UnsetIsDefault
  <2> QED BY <2>2, <2>3, <2>4, <2>5 DEF IInv
<1> QED BY <1>1, <1>2, <1>3 DEF Next

\* The inductive invariant.
THEOREM Invariance == Spec => []IInv
BY InitInv, NextInv, PTL DEF Spec

\* Whatever is in the files, every setting in memory is one the code allows.
THEOREM TypeCorrect == Spec => []TypeOK
<1>1. IInv => TypeOK
  BY DEF IInv
<1> QED BY <1>1, Invariance, PTL

\* The watchdogs of a run fire before its hard timeout does, and no timeout is shorter
\* than a second, wherever each of them comes from.
THEOREM WatchdogsFireFirst == Spec => []WatchdogsInsideHard
<1>1. IInv => WatchdogsInsideHard
  BY DEF IInv
<1> QED BY <1>1, Invariance, PTL

\* A process that has seen the last write of the user's file works with what a restart
\* would find there.
THEOREM MemoryIsTheFile == Spec => []InStep
<1>1. IInv => InStep
  BY DEF IInv
<1> QED BY <1>1, Invariance, PTL

------------------------------------------------------------------------------
(* What a step may do to the settings of a process                         *)

PrivateStep ==
  \A p \in up \cap up', k \in Keys :
    Settings(p)[k]' # Settings(p)[k] =>
      \/ k = "progress" /\ live[p].progress = Shared
      \/ /\ user' = Written(Settings(p)')
         /\ \A l \in Keys \ {k} : Settings(p)[l]' = Settings(p)[l]

\* A step that leaves the memory of a process, except for a block it shares.
LEMMA QuietIsPrivate ==
  ASSUME IInv, IInv', NEW p \in Procs, live'[p] = live[p],
         defaults'[p] = defaults[p] \/ live[p].progress = Shared,
         NEW k \in Keys, ~(k = "progress" /\ live[p].progress = Shared)
  PROVE  Settings(p)'[k] = Settings(p)[k]
<1>1. DOMAIN live[p] = Keys
  BY ConfigIsFunction DEF IInv, TypeOK
<1>2. /\ Settings(p)[k] = IF k = "progress" THEN Block(p) ELSE live[p][k]
      /\ Settings(p)'[k] = IF k = "progress" THEN Block(p)' ELSE live[p][k]
  BY <1>1 DEF Settings
<1>3. k = "progress" => Block(p)' = Block(p)
  BY DEF Block
<1> QED BY <1>2, <1>3

LEMMA EditIsPrivate ==
  ASSUME IInv, IInv', NEW p \in Procs, NEW n \in Keys, Edited(p, n)
  PROVE  PrivateStep
<1> SUFFICES ASSUME NEW q \in up \cap up', NEW k \in Keys, Settings(q)'[k] # Settings(q)[k],
                    ~(k = "progress" /\ live[q].progress = Shared)
             PROVE  /\ user' = Written(Settings(q)')
                    /\ \A l \in Keys \ {k} : Settings(q)'[l] = Settings(q)[l]
  BY DEF PrivateStep
<1>1. TypeOK /\ TypeOK' /\ q \in Procs
  BY DEF IInv, TypeOK
<1>2. PICK c :
         /\ Complete(c)
         /\ \A l \in Keys \ {n} : c[l] = Settings(p)[l]
         /\ live' = [live EXCEPT ![p] = c] /\ user' = Written(c)
         /\ UNCHANGED defaults
  BY DEF Edited
<1>3. q = p
  <2> SUFFICES ASSUME q # p PROVE FALSE
    OBVIOUS
  <2>1. live'[q] = live[q] /\ defaults'[q] = defaults[q]
    BY <1>1, <1>2 DEF TypeOK
  <2> QED BY <1>1, <2>1, QuietIsPrivate
<1>4. live'[p] = c
  BY <1>1, <1>2 DEF TypeOK
<1>5. Settings(p)' = c
  <2>1. /\ DOMAIN c = Keys /\ c = [k1 \in Keys |-> c[k1]]
        /\ c.progress \in BOOLEAN /\ c.progress # Shared
    BY <1>2, ConfigIsFunction, SpecialAssumption DEF Complete
  <2>2. Block(p)' = c.progress
    BY <1>4, <2>1 DEF Block
  <2>3. Settings(p)' = [c EXCEPT !.progress = c.progress]
    BY <1>4, <2>2 DEF Settings
  <2> QED BY <2>1, <2>3
<1>6. k = n
  BY <1>2, <1>3, <1>5
<1> QED BY <1>2, <1>3, <1>5, <1>6

LEMMA PrivateNext == IInv /\ IInv' /\ [Next]_vars => PrivateStep
<1> SUFFICES ASSUME IInv, IInv', [Next]_vars PROVE PrivateStep
  OBVIOUS
<1>1. TypeOK
  BY DEF IInv
<1>2. ASSUME NEW p \in Procs, UserEdit(p) PROVE PrivateStep
  <2>1. \E k \in Keys : Edited(p, k)
    BY <1>1, <1>2, UserEdits DEF IInv
  <2> QED BY <2>1, EditIsPrivate
<1>3. ASSUME \A p \in up \cap up' :
               /\ live'[p] = live[p]
               /\ defaults'[p] = defaults[p] \/ live[p].progress = Shared
      PROVE  PrivateStep
  <2> SUFFICES ASSUME NEW p \in up \cap up', NEW k \in Keys,
                      ~(k = "progress" /\ live[p].progress = Shared)
               PROVE  Settings(p)'[k] = Settings(p)[k]
    BY DEF PrivateStep
  <2>1. p \in Procs
    BY <1>1 DEF TypeOK
  <2> QED BY <1>3, <2>1, QuietIsPrivate
<1>4. ASSUME NEW p \in Procs, Start(p) \/ Stop(p) PROVE PrivateStep
  <2>1. /\ \/ p \notin up
           \/ p \notin up'
        /\ \A q \in Procs \ {p} : live'[q] = live[q] /\ defaults'[q] = defaults[q]
    BY <1>1, <1>4 DEF Start, Stop, Load, Recover, TypeOK
  <2> QED BY <1>1, <1>3, <2>1 DEF TypeOK
\* The block of the defaults may change under all who share it.
<1>5. ASSUME NEW p \in Procs, NEW j \in Projects, Laid(p, j) PROVE PrivateStep
  <2> SUFFICES ASSUME NEW q \in up \cap up', NEW k \in Keys,
                      ~(k = "progress" /\ live[q].progress = Shared)
               PROVE  Settings(q)'[k] = Settings(q)[k]
    BY DEF PrivateStep
  <2>1. DOMAIN live[q] = Keys /\ live'[q] = live[q]
    BY <1>1, <1>5, ConfigIsFunction DEF TypeOK, Laid
  <2>2. /\ Settings(q)[k] = IF k = "progress" THEN Block(q) ELSE live[q][k]
        /\ Settings(q)'[k] = IF k = "progress" THEN Block(q)' ELSE live[q][k]
    BY <2>1 DEF Settings
  <2>3. k = "progress" => Block(q)' = Block(q)
    BY <2>1 DEF Block
  <2> QED BY <2>2, <2>3
<1>6. CASE ByHand
  BY <1>3, <1>6 DEF ByHand, WriteUser, WriteProject, memory
<1>7. ASSUME NEW p \in Procs, Process(p) PROVE PrivateStep
  <2>1. ASSUME NEW j \in Projects, Look(p, j) PROVE PrivateStep
    BY <1>5, <2>1 DEF Look, Laid
  <2>2. ASSUME NEW j \in Projects, NEW asked \in Inputs \cup {Unset}, Prepare(p, j, asked)
        PROVE  PrivateStep
    BY <1>5, <2>2 DEF Prepare, Laid
  <2>3. ASSUME NEW j \in Projects, NEW k \in Numbers, NEW v \in Inputs, PatchProject(p, j, k, v)
        PROVE  PrivateStep
    BY <1>3, <2>3 DEF PatchProject, memory
  <2> QED BY <1>2, <1>4, <1>7, <2>1, <2>2, <2>3 DEF Process
<1>8. CASE UNCHANGED vars
  BY <1>3, <1>8 DEF vars, memory
<1> QED BY <1>6, <1>7, <1>8 DEF Next

\* The settings a process works with change one at a time, and because this very
\* process has written them to the file, unless their block is the defaults'.
THEOREM SettingsArePrivate == Spec => SettingsPrivate
<1>1. IInv /\ IInv' /\ [Next]_vars =>
        [\A p \in up \cap up', k \in Keys :
           Settings(p)[k]' # Settings(p)[k] =>
             \/ k = "progress" /\ live[p].progress = Shared
             \/ /\ user' = Written(Settings(p)')
                /\ \A l \in Keys \ {k} : Settings(p)[l]' = Settings(p)[l]]_vars
  BY PrivateNext DEF PrivateStep
<1> QED BY <1>1, Invariance, PTL DEF Spec, SettingsPrivate

------------------------------------------------------------------------------
(* What a run gets                                                         *)

\* A run that is prepared in process p for project j has the value of the project's
\* file where the file has one, and the user's where it has none.
LEMMA OverlayPicks ==
  ASSUME NEW base \in DelegateConfig, NEW f \in File \cup NoFile, NEW k \in Numbers
  PROVE  LET v == IF Readable(f) /\ f[k] # Absent THEN f[k] ELSE base[k]
         IN  /\ v # Junk /\ v # Unset => Overlay(base, f)[k] = Clamp(k, v)
             /\ ~(Readable(f) /\ f[k] # Absent) => Overlay(base, f)[k] = base[k]
<1>1. k \in Keys /\ k # "progress"
  BY DEF Keys, Numbers
<1>2. CASE Readable(f) /\ f[k] # Absent
  BY <1>1, <1>2 DEF Overlay, Accepted
<1>3. CASE ~(Readable(f) /\ f[k] # Absent)
  <2>1. Overlay(base, f)[k] = base[k]
    BY <1>1, <1>3 DEF Overlay
  <2>2. base[k] # Unset => base[k] \in Lo..Hi[k]
    <3>1. k \in {"hard", "idle", "stuck"}
      BY DEF Numbers
    <3> QED BY <3>1, ConfigIsFunction
  <2>3. base[k] # Unset => Clamp(k, base[k]) = base[k]
    BY <2>2, LimitsAssumption, ClampBounds DEF Numbers
  <2> QED BY <1>3, <2>1, <2>3
<1> QED BY <1>2, <1>3

RunStep ==
  LET f == project[run.of]'
      mine == live[run.by]'
      From(k) == IF Readable(f) /\ f[k] # Absent THEN f[k] ELSE mine[k]
  IN  run' # run /\ run.asked' = Unset =>
        /\ From("hard") # Junk => run.hard' = Clamp("hard", From("hard"))
        /\ run.source' = "user" => run.hard' = mine.hard
        /\ run.source' = "project" => Readable(f) /\ f.hard # Absent
        /\ From("idle") \in Nat /\ 2 * From("idle") <= run.hard' =>
             run.idle' = Clamp("idle", From("idle"))

LEMMA PrepareObeys ==
  ASSUME IInv, NEW p \in Procs, NEW j \in Projects, NEW asked \in Inputs \cup {Unset},
         Prepare(p, j, asked)
  PROVE  RunStep
<1> DEFINE f == project[j]
           mine == live[p]
           c == Overlay(mine, f)
           From(k) == IF Readable(f) /\ f[k] # Absent THEN f[k] ELSE mine[k]
<1>1. mine \in DelegateConfig /\ f \in File \cup NoFile
  BY DEF IInv, TypeOK
<1>2. c \in DelegateConfig
  BY <1>1, OverlayIsConfig
<1>3. run' = Resolved(p, j, c, asked) /\ UNCHANGED <<project, live>>
  BY DEF Prepare, files
<1>4. run'.by = p /\ run'.of = j /\ run'.asked = asked
  BY <1>3 DEF Resolved
<1> SUFFICES ASSUME asked = Unset
             PROVE  /\ From("hard") # Junk => run'.hard = Clamp("hard", From("hard"))
                    /\ run'.source = "user" => run'.hard = mine.hard
                    /\ run'.source = "project" => Readable(f) /\ f.hard # Absent
                    /\ From("idle") \in Nat /\ 2 * From("idle") <= run'.hard =>
                         run'.idle = Clamp("idle", From("idle"))
  BY <1>3, <1>4 DEF RunStep
<1>5. /\ run'.hard = c.hard /\ run'.idle = IdleLimit(c, c.hard)
      /\ run'.source = IF c.hard # mine.hard THEN "project" ELSE "user"
  BY <1>3 DEF Resolved
<1>6. "hard" \in Numbers /\ "idle" \in Numbers
  BY DEF Numbers
<1>7. (From("hard") # Junk => From("hard") # Unset) /\ mine.hard \in Lo..Hi.hard
  <2>1. mine.hard \in Nat /\ mine.hard \in Lo..Hi.hard
    BY <1>1, ConfigIsFunction, LimitsAssumption
  <2>2. Readable(f) => f.hard \in Int \cup {Absent, Junk}
    BY <1>1, FilesAreReadable, FileIsFunction DEF Given
  <2> QED BY <2>1, <2>2, SpecialAssumption
<1>8. /\ From("hard") # Junk => c.hard = Clamp("hard", From("hard"))
      /\ c.hard # mine.hard => Readable(f) /\ f.hard # Absent
  <2>1. /\ From("hard") # Junk /\ From("hard") # Unset => c["hard"] = Clamp("hard", From("hard"))
        /\ ~(Readable(f) /\ f["hard"] # Absent) => c["hard"] = mine["hard"]
    BY <1>1, <1>6, OverlayPicks
  <2> QED BY <1>7, <2>1
<1>9. ASSUME From("idle") \in Nat, 2 * From("idle") <= c.hard
      PROVE  IdleLimit(c, c.hard) = Clamp("idle", From("idle"))
  <2> DEFINE v == From("idle")
  <2>1. v # Junk /\ v # Unset
    BY <1>9, SpecialAssumption
  <2>2. c["idle"] = Clamp("idle", v)
    BY <1>1, <1>6, <2>1, OverlayPicks
  <2>3. c.hard \in Lo..Hi.hard /\ Lo \in Nat /\ Hi.hard \in Nat /\ Hi.idle \in Nat /\ Lo <= Hi.idle
    BY <1>2, ConfigIsFunction, LimitsAssumption
  <2>4. v \in Nat /\ 2 * v <= c.hard
    BY <1>9
  <2> HIDE DEF v, c
  <2>5. v <= c.hard \div 2 /\ c.hard \div 2 \in Nat
    BY <2>3, <2>4
  <2> QED BY <2>2, <2>3, <2>4, <2>5 DEF IdleLimit, Least, Clamp, v
<1> QED BY <1>5, <1>7, <1>8, <1>9

LEMMA RunNext == IInv /\ [Next]_vars => RunStep
<1> SUFFICES ASSUME IInv, [Next]_vars PROVE RunStep
  OBVIOUS
<1>1. ASSUME run' = run PROVE RunStep
  BY <1>1 DEF RunStep
<1>2. ASSUME NEW p \in Procs, Process(p) PROVE RunStep
  <2>1. ASSUME NEW j \in Projects, NEW asked \in Inputs \cup {Unset}, Prepare(p, j, asked)
        PROVE  RunStep
    BY <2>1, PrepareObeys
  <2>2. ASSUME UserEdit(p) PROVE RunStep
    BY <1>1, <2>2 DEF UserEdit, PatchConfig, PatchOther, PatchExecution, PatchProgress, Save
  <2>3. ASSUME NEW j \in Projects, NEW k \in Numbers, NEW v \in Inputs, PatchProject(p, j, k, v)
        PROVE  RunStep
    BY <1>1, <2>3 DEF PatchProject
  <2>4. ASSUME NEW j \in Projects, Look(p, j) PROVE RunStep
    BY <1>1, <2>4 DEF Look
  <2>5. CASE Start(p) \/ Stop(p)
    BY <1>1, <2>5 DEF Start, Stop
  <2> QED BY <1>2, <2>1, <2>2, <2>3, <2>4, <2>5 DEF Process
<1>3. CASE ByHand
  BY <1>1, <1>3 DEF ByHand, WriteUser, WriteProject
<1>4. CASE UNCHANGED vars
  BY <1>1, <1>4 DEF vars
<1> QED BY <1>2, <1>3, <1>4 DEF Next

\* A run has the timeouts its project sets, and the user's where it sets none, and its
\* header says which.
THEOREM RunGetsItsProject == Spec => RunOfItsProject
<1>1. IInv /\ [Next]_vars =>
        [LET f == project[run.of]'
             mine == live[run.by]'
             From(k) == IF Readable(f) /\ f[k] # Absent THEN f[k] ELSE mine[k]
         IN  run' # run /\ run.asked' = Unset =>
               /\ From("hard") # Junk => run.hard' = Clamp("hard", From("hard"))
               /\ run.source' = "user" => run.hard' = mine.hard
               /\ run.source' = "project" => Readable(f) /\ f.hard # Absent
               /\ From("idle") \in Nat /\ 2 * From("idle") <= run.hard' =>
                    run.idle' = Clamp("idle", From("idle"))]_vars
  BY RunNext DEF RunStep
<1> QED BY <1>1, Invariance, PTL DEF Spec, RunOfItsProject
=============================================================================
