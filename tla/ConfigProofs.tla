---------------------------- MODULE ConfigProofs ----------------------------
(***************************************************************************)
(* Theorems about PluginConfig and CommandDispatch, for every number of    *)
(* requests, plugins, pages, commands and messages, with their proofs.     *)
(***************************************************************************)
EXTENDS CommandDispatch, WellFoundedInduction, SequenceTheorems, TLAPS

-----------------------------------------------------------------------------
(* Invariants                                                              *)

(* A value that a process which loads it would take as it is.              *)
Stable(page, value) ==
  IsValue(page, value) /\ Prepare(page, Unset(page), value) = value

(* The tables of the administration. *)
ShapeInv ==
  /\ file = [page \in Page |-> file[page]]
  /\ memory = [page \in Page |-> memory[page]]
  /\ prepared = [r \in Req |-> prepared[r]]
  /\ pc \in [Req -> {"idle", "save", "write", "apply"}]
  /\ typed \in [Req -> BOOLEAN]
  /\ intact \in BOOLEAN /\ up \in BOOLEAN
  /\ configLock \in Req \cup {NULL}
  /\ crossed \subseteq Page /\ unapplied \subseteq Page /\ torn \in BOOLEAN
  /\ puts \in 0 .. MaxPut /\ starts \in 0 .. MaxStart

(* What is in the file, on its way there, and in memory. *)
ValueInv ==
  /\ \A page \in Page : file[page] = NULL \/ Stable(page, file[page])
  /\ \A page \in Page : IF up THEN IsValue(page, memory[page]) ELSE memory[page] = NULL
  /\ \A r \in Req : IF Saving(r)
                    THEN prepared[r] # NULL /\ Stable(PageOf[r], prepared[r])
                    ELSE prepared[r] = NULL
  /\ \A r \in Req : Saving(r) => up

(* One request at a time is between the emptying of the file and its writing. *)
WriterInv ==
  \A r \in Req : pc[r] = "write" => configLock = r /\ ~intact

(* The file is empty under a writer, or a write has failed.                 *)
TornInv ==
  intact \/ torn \/ \E r \in Req : pc[r] = "write" /\ configLock = r

(* What ApplyConfig refuses is on its way to it, or has been refused, or    *)
(* the process ended before.                                                *)
Accounted(page) ==
  \/ ~RefusedBy(page, EntryValue(page))
  \/ \E r \in Req : PageOf[r] = page /\ pc[r] = "apply" /\ RefusedBy(page, prepared[r])
  \/ page \in unapplied

RefusalInv == \A page \in Page : Accounted(page)

(* What memory has for a page is what the file has, or had before it was    *)
(* emptied: SavedIsInEffect without its premise.                            *)
InEffect(page) ==
  \/ Applying(page)
  \/ memory[page] = EntryValue(page)
  \/ page[1] = "settings" /\ page \in unapplied

EffectInv == up => \A page \in Page \ crossed : InEffect(page)

(* Where no two requests have overlapped. *)
AloneInv ==
  /\ \A r, o \in Req : Saving(r) /\ Saving(o) /\ PageOf[r] = PageOf[o] =>
       r = o \/ PageOf[r] \in crossed
  /\ \A r \in Req : pc[r] = "apply" /\ PageOf[r] \notin crossed =>
       file[PageOf[r]] = prepared[r]
  /\ EffectInv

(* A form that left the password blank carries the one in memory.          *)
BlankInv ==
  \A r \in Req :
    /\ Saving(r) /\ PageOf[r][1] = "settings" /\ PageOf[r] \notin crossed /\ ~typed[r]
    => prepared[r].secret = memory[PageOf[r]].secret

ConfigInv ==
  ShapeInv /\ ValueInv /\ WriterInv /\ TornInv /\ RefusalInv /\ AloneInv /\ BlankInv

(* The message that is judged, or handled.                                 *)
DispatchInv ==
  /\ running \in BOOLEAN /\ messages \in 0 .. MaxMessage
  /\ message = NULL => judged = NULL /\ ~running /\ ran = NULL
  /\ message # NULL =>
       /\ message \in Sent
       /\ Root(Prefix(message)) \in Path
       /\ judged = Resolved(message)
       /\ ran = IF running THEN NULL ELSE Handled(message)

USE DEF diskVars, reqVars, failVars

-----------------------------------------------------------------------------
(* Preparing a value                                                       *)

LEMMA PageParts ==
  ASSUME NEW page \in Page
  PROVE  page[1] \in {"settings", "access"} /\ page[2] \in Plugin
  BY DEF Page

LEMMA RuleStored ==
  ASSUME NEW rule \in Rule
  PROVE  IsFormRule(rule) /\ NormalizeRule(rule) = rule
<1>1. rule.mode \in Mode /\ rule.listed \in SUBSET Person
      /\ rule = [mode |-> rule.mode, listed |-> rule.listed]
  BY DEF Rule
<1>2. rule.mode # ""
  BY <1>1 DEF Mode
<1>3. [rule EXCEPT !.mode = rule.mode] = rule
  BY DEF Rule
<1> QED
  BY <1>1, <1>2, <1>3 DEF IsFormRule, NormalizeRule

LEMMA RuleNormalized ==
  ASSUME NEW rule, IsFormRule(rule), NormalizeRule(rule).mode \in Mode
  PROVE  NormalizeRule(rule) \in Rule
  BY DEF IsFormRule, Rule, NormalizeRule

(* A form, or a value that was stored. *)
IsForm(page, input) ==
  IF page[1] = "settings"
  THEN input \in Settings
  ELSE /\ IsFormRule(input.default)
       /\ \A path \in DOMAIN input.commands : IsFormRule(input.commands[path])

LEMMA UnsetForm ==
  ASSUME NEW page \in Page
  PROVE  IsForm(page, Unset(page))
<1>1. CASE page[1] = "settings"
  BY <1>1, ValueAssumption DEF IsForm, Unset, Settings
<1>2. CASE page[1] # "settings"
  <2>1. Unset(page) = [default |-> [mode |-> "off", listed |-> {}], commands |-> <<>>]
    BY <1>2 DEF Unset
  <2>2. IsFormRule([mode |-> "off", listed |-> {}])
    BY DEF IsFormRule
  <2>3. DOMAIN <<>> = {}
    OBVIOUS
  <2> QED
    BY <1>2, <2>1, <2>2, <2>3 DEF IsForm
<1> QED
  BY <1>1, <1>2

LEMMA InputForm ==
  ASSUME NEW page \in Page, NEW input \in Input(page)
  PROVE  IsForm(page, input)
  BY FormAssumption DEF Input, IsForm

LEMMA ValueForm ==
  ASSUME NEW page \in Page, NEW value, IsValue(page, value)
  PROVE  IsForm(page, value)
  BY RuleStored DEF IsValue, IsForm

LEMMA SettingsStable ==
  ASSUME NEW page \in Page, page[1] = "settings", NEW current \in Settings,
         NEW input \in Settings, Prepare(page, current, input) # NULL
  PROVE  /\ Stable(page, Prepare(page, current, input))
         /\ Prepare(page, current, input) \in Accepted[page[2]]
         /\ Prepare(page, current, input).secret =
              IF input.secret = Blank THEN current.secret ELSE input.secret
<1> DEFINE new == [input EXCEPT !.secret = IF @ = Blank THEN current.secret ELSE @]
<1>1. /\ input.secret \in Secret \cup {Blank} /\ current.secret \in Secret \cup {Blank}
      /\ input = [plain |-> input.plain, secret |-> input.secret] /\ input.plain \in Plain
  BY DEF Settings
<1>2. new = [plain |-> input.plain,
             secret |-> IF input.secret = Blank THEN current.secret ELSE input.secret]
  BY <1>1
<1>3. new \in Settings
  BY <1>1, <1>2 DEF Settings
<1>4. new.secret = IF input.secret = Blank THEN current.secret ELSE input.secret
  BY <1>2
<1>5. Prepare(page, current, input) = new /\ new \in Accepted[page[2]]
  BY DEF Prepare, PrepareSettings
<1> HIDE DEF new
<1>6. Unset(page).secret = Blank
  BY DEF Unset
<1>7. [new EXCEPT !.secret = IF @ = Blank THEN Unset(page).secret ELSE @] = new
  <2>1. [new EXCEPT !.secret = new.secret] = new
    BY <1>3 DEF Settings
  <2>2. (IF new.secret = Blank THEN Unset(page).secret ELSE new.secret) = new.secret
    BY <1>6
  <2> QED
    BY <2>1, <2>2
<1>8. Prepare(page, Unset(page), new) = new
  BY <1>5, <1>7 DEF Prepare, PrepareSettings
<1> QED
  BY <1>3, <1>4, <1>5, <1>8 DEF Stable, IsValue

LEMMA AccessStable ==
  ASSUME NEW page \in Page, page[1] # "settings", NEW input, IsForm(page, input),
         PrepareAccess(page[2], input) # NULL
  PROVE  /\ IsValue(page, PrepareAccess(page[2], input))
         /\ PrepareAccess(page[2], PrepareAccess(page[2], input)) = PrepareAccess(page[2], input)
         /\ \A path \in DOMAIN PrepareAccess(page[2], input).commands :
              PrepareAccess(page[2], input).commands[path].mode # "off"
<1> DEFINE default  == NormalizeRule(input.default)
           commands == [path \in Kept(input.commands) |->
                          NormalizeRule(input.commands[path])]
           value    == [default |-> default, commands |-> commands]
<1>1. /\ PrepareAccess(page[2], input) = value
      /\ default.mode \in Mode /\ DOMAIN input.commands \subseteq CommandPaths(page[2])
      /\ \A path \in DOMAIN input.commands :
           NormalizeRule(input.commands[path]).mode \in Mode
  BY DEF PrepareAccess
<1>2. default \in Rule
  BY <1>1, RuleNormalized DEF IsForm
<1>3. \A path \in Kept(input.commands) : /\ commands[path] \in Rule
                                         /\ commands[path].mode # "off"
                                         /\ path \in CommandPaths(page[2])
  BY <1>1, RuleNormalized DEF IsForm, Kept
<1>4. DOMAIN commands = Kept(input.commands)
  OBVIOUS
<1>5. value.default = default /\ value.commands = commands
      /\ DOMAIN value = {"default", "commands"}
  OBVIOUS
<1>6. commands = [path \in DOMAIN commands |-> commands[path]]
  BY <1>4
<1> HIDE DEF default, commands
<1>7. IsValue(page, value)
  BY <1>2, <1>3, <1>4, <1>5 DEF IsValue
<1>8. /\ NormalizeRule(default) = default
      /\ \A path \in DOMAIN commands : NormalizeRule(commands[path]) = commands[path]
  BY <1>2, <1>3, <1>4, RuleStored
<1>9. Kept(commands) = DOMAIN commands
  BY <1>3, <1>4, <1>8 DEF Kept
<1>10. [path \in Kept(commands) |-> NormalizeRule(commands[path])] = commands
  BY <1>6, <1>8, <1>9
<1>11. \A path \in DOMAIN commands : commands[path].mode \in Mode
  BY <1>3, <1>4 DEF Rule
<1>12. default.mode \in Mode /\ DOMAIN commands \subseteq CommandPaths(page[2])
  BY <1>2, <1>3, <1>4 DEF Rule
<1>13. PrepareAccess(page[2], value) = [default |-> default, commands |-> commands]
  BY <1>5, <1>8, <1>10, <1>11, <1>12 DEF PrepareAccess
<1> QED
  BY <1>1, <1>3, <1>4, <1>5, <1>7, <1>13

(* What is prepared is what a process that loads it takes.                  *)
LEMMA PrepareStable ==
  ASSUME NEW page \in Page, NEW current, page[1] = "settings" => current \in Settings,
         NEW input, IsForm(page, input), Prepare(page, current, input) # NULL
  PROVE  Stable(page, Prepare(page, current, input))
<1>1. CASE page[1] = "settings"
  BY <1>1, SettingsStable DEF IsForm
<1>2. CASE page[1] # "settings"
  BY <1>2, AccessStable DEF Prepare, Stable
<1> QED
  BY <1>1, <1>2

(* What is stored is loaded as it is.                                       *)
LEMMA LoadedStored ==
  ASSUME NEW page \in Page, file[page] # NULL, Stable(page, file[page])
  PROVE  EntryValue(page) = file[page]
  BY DEF EntryValue, Stable

(* A page nobody has saved is loaded as it is, and nothing refuses it.      *)
LEMMA UnsetLoaded ==
  ASSUME NEW page \in Page, file[page] = NULL
  PROVE  /\ EntryValue(page) = Unset(page) /\ EntryValue(page) # NULL
         /\ ~RefusedBy(page, EntryValue(page))
<1> DEFINE empty == [plain |-> Zero, secret |-> Blank]
           rule  == [mode |-> "off", listed |-> {}]
<1>1. page[2] \in Plugin /\ Unset(page) # NULL
  BY PageParts, NullAssumption
<1>2. EntryValue(page) = Prepare(page, Unset(page), Unset(page))
  BY DEF EntryValue
<1>3. CASE page[1] = "settings"
  <2>1. Unset(page) = empty /\ empty \in Accepted[page[2]] \ Refused[page[2]]
    BY <1>1, <1>3, DefaultAssumption DEF Unset
  <2>2. [empty EXCEPT !.secret = IF @ = Blank THEN empty.secret ELSE @] = empty
    OBVIOUS
  <2> HIDE DEF empty
  <2>3. PrepareSettings(page[2], empty, empty) = empty
    BY <2>1, <2>2 DEF PrepareSettings
  <2> QED
    BY <1>1, <1>2, <1>3, <2>1, <2>3 DEF Prepare, RefusedBy
<1>4. CASE page[1] # "settings"
  <2>1. DOMAIN <<>> = {} /\ Kept(<<>>) = {}
    BY DEF Kept
  <2>2. [path \in Kept(<<>>) |-> NormalizeRule(<<>>[path])] = <<>>
    BY <2>1
  <2>3. NormalizeRule(rule) = rule /\ rule.mode \in Mode
    BY DEF NormalizeRule, Mode
  <2>4. Unset(page) = [default |-> rule, commands |-> <<>>]
    BY <1>4 DEF Unset
  <2> DEFINE access == Unset(page)
  <2>5. access.default = rule /\ access.commands = <<>>
    BY <2>4
  <2> HIDE DEF rule, access
  <2>6. PrepareAccess(page[2], access) = [default |-> rule, commands |-> <<>>]
    BY <2>1, <2>2, <2>3, <2>5 DEF PrepareAccess
  <2> QED
    BY <1>1, <1>2, <1>4, <2>4, <2>6 DEF access, Prepare, RefusedBy
<1> QED
  BY <1>3, <1>4

LEMMA LoadedTyped ==
  ASSUME ValueInv, NEW page \in Page, Loaded(page) # NULL
  PROVE  IsValue(page, Loaded(page)) /\ Loaded(page) = EntryValue(page) /\ intact
<1> DEFINE entry == IF file[page] = NULL THEN Unset(page) ELSE file[page]
<1>1. IsForm(page, entry)
  BY UnsetForm, ValueForm DEF ValueInv, Stable
<1>2. page[1] = "settings" => Unset(page) \in Settings
  BY UnsetForm DEF IsForm
<1> QED
  BY <1>1, <1>2, PrepareStable DEF Loaded, EntryValue, Stable

-----------------------------------------------------------------------------
(* The steps of the administration                                         *)

LEMMA PageOfReq ==
  ASSUME NEW r \in Req
  PROVE  PageOf[r] \in Page
  BY PageAssumption

LEMMA ShapeNext ==
  ASSUME ShapeInv, AdminNext \/ Crash
  PROVE  ShapeInv'
<1>1. ASSUME NEW r \in Req, NEW input \in Input(PageOf[r]), Put(r, input)
      PROVE  ShapeInv'
  <2>1. /\ pc' \in [Req -> {"idle", "save", "write", "apply"}]
        /\ prepared' = [x \in Req |-> prepared'[x]]
    BY <1>1 DEF Put, ShapeInv
  <2>2. typed' \in [Req -> BOOLEAN]
    <3> DEFINE given == /\ PageOf[r][1] = "settings"
                        /\ Prepare(PageOf[r], memory[PageOf[r]], input) # NULL
                        /\ input.secret # Blank
    <3>1. given \in BOOLEAN
      BY Zenon
    <3>2. typed' = [typed EXCEPT ![r] = given]
      BY <1>1, Zenon DEF Put
    <3> HIDE DEF given
    <3> QED
      BY <3>1, <3>2 DEF ShapeInv
  <2>3. crossed' \subseteq Page
    BY <1>1, PageOfReq DEF Put, ShapeInv
  <2>4. puts' \in 0 .. MaxPut
    BY <1>1, BoundAssumption DEF Put, ShapeInv
  <2> QED
    BY <1>1, <2>1, <2>2, <2>3, <2>4 DEF Put, ShapeInv
<1>2. ASSUME NEW r \in Req, Answered(r)
      PROVE  /\ pc' \in [Req -> {"idle", "save", "write", "apply"}]
             /\ prepared' = [x \in Req |-> prepared'[x]]
             /\ typed' \in [Req -> BOOLEAN]
  <2>1. /\ pc' \in [Req -> {"idle", "save", "write", "apply"}]
        /\ prepared' = [x \in Req |-> prepared'[x]]
    BY <1>2 DEF Answered, ShapeInv
  <2>2. typed' \in [Req -> BOOLEAN]
    BY <1>2 DEF Answered, ShapeInv
  <2> QED
    BY <2>1, <2>2
<1>3. ASSUME NEW r \in Req, Truncate(r)
      PROVE  ShapeInv'
  BY <1>3 DEF Truncate, ShapeInv
<1>4. ASSUME NEW r \in Req, SaveFails(r)
      PROVE  ShapeInv'
  BY <1>2, <1>4 DEF SaveFails, ShapeInv
<1>5. ASSUME NEW r \in Req, Write(r)
      PROVE  ShapeInv'
  BY <1>5 DEF Write, ShapeInv
<1>6. ASSUME NEW r \in Req, WriteFails(r)
      PROVE  ShapeInv'
  <2>1. torn' \in BOOLEAN
    BY <1>6, Zenon DEF WriteFails
  <2> QED
    BY <1>2, <1>6, <2>1 DEF WriteFails, ShapeInv
<1>7. ASSUME NEW r \in Req, Apply(r)
      PROVE  ShapeInv'
  <2>1. memory' = [page \in Page |-> memory'[page]]
    BY <1>7 DEF Apply, ShapeInv
  <2>2. unapplied' \subseteq Page
    BY <1>7, PageOfReq DEF Apply, ShapeInv
  <2> QED
    BY <1>2, <1>7, <2>1, <2>2 DEF Apply, ShapeInv
<1>8. CASE Start
  BY <1>8, BoundAssumption DEF Start, ShapeInv
<1>9. CASE Crash
  <2>1. torn' \in BOOLEAN
    <3> DEFINE cut == \E r \in Req : pc[r] = "write"
    <3>1. torn' = (torn \/ cut) /\ torn \in BOOLEAN
      BY <1>9 DEF Crash, ShapeInv
    <3>2. (torn \/ cut) \in BOOLEAN
      BY Zenon
    <3> QED
      BY <3>1, <3>2
  <2>2. unapplied' \subseteq Page
    BY <1>9, PageOfReq DEF Crash, ShapeInv
  <2> QED
    BY <1>9, <2>1, <2>2 DEF Crash, ShapeInv
<1> QED
  BY <1>1, <1>3, <1>4, <1>5, <1>6, <1>7, <1>8, <1>9 DEF AdminNext

(* What a step does to the request it is about; the others stay.            *)
Rest(r) ==
  \A o \in Req \ {r} :
    pc'[o] = pc[o] /\ prepared'[o] = prepared[o] /\ typed'[o] = typed[o]

LEMMA PutStep ==
  ASSUME ShapeInv, NEW r \in Req, NEW input \in Input(PageOf[r]), Put(r, input)
  PROVE  LET page == PageOf[r]
             new  == Prepare(page, memory[page], input)
         IN  /\ Rest(r) /\ up /\ pc[r] = "idle" /\ prepared'[r] = new
             /\ \/ new = NULL /\ pc'[r] = "idle" /\ UNCHANGED crossed
                \/ /\ new # NULL /\ pc'[r] = "save"
                   /\ page[1] = "settings" => typed'[r] = (input.secret # Blank)
                   /\ crossed \subseteq crossed'
                   /\ \A o \in Req \ {r} : PageOf[o] = page /\ Saving(o) => page \in crossed'
             /\ UNCHANGED <<diskVars, memory, up, failVars>>
<1> DEFINE page == PageOf[r]
           new  == Prepare(page, memory[page], input)
<1>1. /\ pc' = [pc EXCEPT ![r] = IF new = NULL THEN "idle" ELSE "save"]
      /\ prepared' = [prepared EXCEPT ![r] = new]
      /\ crossed' = crossed \cup
           {g \in {page} : new # NULL /\ \E o \in Req \ {r} : PageOf[o] = g /\ Saving(o)}
      /\ up /\ pc[r] = "idle" /\ UNCHANGED <<diskVars, memory, up, failVars>>
  BY DEF Put
<1>2. typed' = [typed EXCEPT ![r] = /\ page[1] = "settings"
                                    /\ new # NULL
                                    /\ input.secret # Blank]
  BY DEF Put
<1> HIDE DEF page, new
<1>3. \A o \in Req \ {r} : typed'[o] = typed[o]
  BY <1>2 DEF ShapeInv
<1>4. new # NULL /\ page[1] = "settings" => typed'[r] = (input.secret # Blank)
  BY <1>2 DEF ShapeInv
<1>5. Rest(r) /\ prepared'[r] = new
  BY <1>1, <1>3 DEF ShapeInv, Rest
<1>6. pc'[r] = IF new = NULL THEN "idle" ELSE "save"
  BY <1>1 DEF ShapeInv
<1>7. new = NULL => UNCHANGED crossed
  BY <1>1
<1>8. /\ crossed \subseteq crossed'
      /\ new # NULL =>
           \A o \in Req \ {r} : PageOf[o] = page /\ Saving(o) => page \in crossed'
  BY <1>1
<1> QED
  BY <1>1, <1>4, <1>5, <1>6, <1>7, <1>8 DEF page, new

LEMMA AnsweredStep ==
  ASSUME ShapeInv, NEW r \in Req, Answered(r)
  PROVE  Rest(r) /\ pc'[r] = "idle" /\ prepared'[r] = NULL
<1>1. Rest(r)
  BY DEF ShapeInv, Answered, Rest
<1> QED
  BY <1>1 DEF ShapeInv, Answered

(* A request moves on to its next stage. *)
LEMMA StageStep ==
  ASSUME ShapeInv, NEW r \in Req, NEW stage, pc' = [pc EXCEPT ![r] = stage],
         UNCHANGED <<prepared, typed>>
  PROVE  Rest(r) /\ pc'[r] = stage /\ prepared'[r] = prepared[r] /\ typed'[r] = typed[r]
  BY DEF ShapeInv, Rest

-----------------------------------------------------------------------------
(* What is saved loads                                                     *)

LEMMA StableFacts ==
  ASSUME NEW page \in Page, NEW value, Stable(page, value)
  PROVE  IsValue(page, value)
  BY DEF Stable

(* The values of the requests other than r stay as they are.                *)
LEMMA ValueKept ==
  ASSUME ValueInv, NEW r \in Req, Rest(r), up' = up,
         \A page \in Page : file'[page] = file[page] \/ Stable(page, file'[page]),
         \A page \in Page : memory'[page] = memory[page] \/ (IsValue(page, memory'[page]) /\ up),
         Saving(r)' => up /\ prepared'[r] # NULL /\ Stable(PageOf[r], prepared'[r]),
         ~Saving(r)' => prepared'[r] = NULL
  PROVE  ValueInv'
<1>1. \A page \in Page : file'[page] = NULL \/ Stable(page, file'[page])
  BY DEF ValueInv
<1>2. \A page \in Page : IF up' THEN IsValue(page, memory'[page]) ELSE memory'[page] = NULL
  BY DEF ValueInv
<1>3. ASSUME NEW o \in Req
      PROVE  /\ IF Saving(o)'
                THEN prepared'[o] # NULL /\ Stable(PageOf[o], prepared'[o])
                ELSE prepared'[o] = NULL
             /\ Saving(o)' => up'
  <2>1. CASE o = r
    BY <2>1
  <2>2. CASE o # r
    BY <2>2 DEF ValueInv, Rest, Saving
  <2> QED
    BY <2>1, <2>2
<1>4. \A page, value : Stable(page, value)' <=> Stable(page, value)
  BY DEF Stable, IsValue, Prepare, PrepareSettings, PrepareAccess, Unset
<1>5. \A page, value : IsValue(page, value)' <=> IsValue(page, value)
  BY DEF IsValue
<1> QED
  BY <1>1, <1>2, <1>3, <1>4, <1>5 DEF ValueInv

LEMMA ValueNext ==
  ASSUME ShapeInv, ValueInv, AdminNext \/ Crash
  PROVE  ValueInv'
<1>1. ASSUME NEW r \in Req, NEW input \in Input(PageOf[r]), Put(r, input)
      PROVE  ValueInv'
  <2> DEFINE page == PageOf[r]
             new  == Prepare(page, memory[page], input)
  <2>1. page \in Page /\ up
    BY <1>1, PageOfReq, PutStep
  <2>2. new # NULL => Stable(page, new)
    <3>1. page[1] = "settings" => memory[page] \in Settings
      BY <2>1 DEF ValueInv, IsValue
    <3> HIDE DEF page
    <3> QED
      BY <1>1, <2>1, <3>1, InputForm, PrepareStable DEF page
  <2>3. /\ Rest(r) /\ prepared'[r] = new /\ UNCHANGED <<diskVars, memory, up>>
        /\ pc'[r] = IF new = NULL THEN "idle" ELSE "save"
    BY <1>1, PutStep
  <2> QED
    BY <2>1, <2>2, <2>3, ValueKept DEF Saving
<1>2. ASSUME NEW r \in Req, Truncate(r)
      PROVE  ValueInv'
  <2>1. /\ Rest(r) /\ pc'[r] = "write" /\ prepared'[r] = prepared[r] /\ pc[r] = "save"
        /\ UNCHANGED <<file, memory, up>>
    BY <1>2, StageStep DEF Truncate
  <2> QED
    BY <2>1, ValueKept DEF Saving, ValueInv
<1>3. ASSUME NEW r \in Req, SaveFails(r) \/ WriteFails(r)
      PROVE  ValueInv'
  <2>1. Rest(r) /\ pc'[r] = "idle" /\ prepared'[r] = NULL
    BY <1>3, AnsweredStep DEF SaveFails, WriteFails
  <2>2. UNCHANGED <<file, memory, up>>
    BY <1>3 DEF SaveFails, WriteFails
  <2> QED
    BY <2>1, <2>2, ValueKept DEF Saving
<1>4. ASSUME NEW r \in Req, Write(r)
      PROVE  ValueInv'
  <2>1. /\ Rest(r) /\ pc'[r] = "apply" /\ prepared'[r] = prepared[r] /\ pc[r] = "write"
        /\ UNCHANGED <<memory, up>> /\ file' = [file EXCEPT ![PageOf[r]] = prepared[r]]
    BY <1>4, StageStep DEF Write
  <2>2. prepared[r] # NULL /\ Stable(PageOf[r], prepared[r]) /\ up
    BY <2>1 DEF Saving, ValueInv
  <2>3. \A page \in Page : file'[page] = file[page] \/ Stable(page, file'[page])
    BY <2>1, <2>2 DEF ShapeInv
  <2> QED
    BY <2>1, <2>2, <2>3, ValueKept DEF Saving
<1>5. ASSUME NEW r \in Req, Apply(r)
      PROVE  ValueInv'
  <2>1. /\ Rest(r) /\ pc'[r] = "idle" /\ prepared'[r] = NULL /\ pc[r] = "apply"
        /\ UNCHANGED <<file, up>>
        /\ memory' = memory \/ memory' = [memory EXCEPT ![PageOf[r]] = prepared[r]]
    BY <1>5, AnsweredStep DEF Apply
  <2>2. Stable(PageOf[r], prepared[r]) /\ up
    BY <2>1 DEF Saving, ValueInv
  <2>3. IsValue(PageOf[r], prepared[r])
    BY <2>2, PageOfReq, StableFacts
  <2>4. \A page \in Page : memory'[page] = memory[page] \/ (IsValue(page, memory'[page]) /\ up)
    BY <2>1, <2>2, <2>3 DEF ShapeInv
  <2> QED
    BY <2>1, <2>4, ValueKept DEF Saving
<1>6. \A page, value : /\ Stable(page, value)' <=> Stable(page, value)
                       /\ IsValue(page, value)' <=> IsValue(page, value)
  BY DEF Stable, IsValue, Prepare, PrepareSettings, PrepareAccess, Unset
<1>7. CASE Start
  <2>1. /\ ~up /\ up' = TRUE /\ UNCHANGED <<file, pc, prepared>>
        /\ \A page \in Page : Loaded(page) # NULL /\ memory'[page] = Loaded(page)
    BY <1>7 DEF Start
  <2>2. \A page \in Page : IsValue(page, memory'[page])
    BY <2>1, LoadedTyped
  <2> QED
    BY <1>6, <2>1, <2>2 DEF ValueInv, Saving
<1>8. CASE Crash
  <2>1. /\ up' = FALSE /\ UNCHANGED file
        /\ \A page \in Page : memory'[page] = NULL
        /\ \A r \in Req : pc'[r] = "idle" /\ prepared'[r] = NULL
    BY <1>8 DEF Crash
  <2> QED
    BY <1>6, <2>1 DEF ValueInv, Saving
<1> QED
  BY <1>1, <1>2, <1>3, <1>4, <1>5, <1>7, <1>8 DEF AdminNext

-----------------------------------------------------------------------------
(* One writer                                                              *)

LEMMA WriterNext ==
  ASSUME ShapeInv, WriterInv, AdminNext \/ Crash
  PROVE  WriterInv'
<1>1. ASSUME NEW r \in Req, NEW input \in Input(PageOf[r]), Put(r, input)
      PROVE  WriterInv'
  <2>1. /\ Rest(r) /\ pc'[r] # "write" /\ UNCHANGED <<configLock, intact>>
    BY <1>1, PutStep
  <2> QED
    BY <2>1 DEF Rest, WriterInv
<1>2. ASSUME NEW r \in Req, Truncate(r)
      PROVE  WriterInv'
  <2>1. /\ Rest(r) /\ configLock = NULL /\ configLock' = r /\ intact' = FALSE
    BY <1>2, StageStep DEF Truncate
  <2> QED
    BY <2>1, NullAssumption DEF Rest, WriterInv
<1>3. ASSUME NEW r \in Req, SaveFails(r)
      PROVE  WriterInv'
  <2>1. Rest(r) /\ pc'[r] = "idle" /\ UNCHANGED <<configLock, intact>>
    BY <1>3, AnsweredStep DEF SaveFails
  <2> QED
    BY <2>1 DEF Rest, WriterInv
<1>4. ASSUME NEW r \in Req, WriteFails(r) \/ Write(r)
      PROVE  WriterInv'
  <2>1. Rest(r) /\ pc[r] = "write" /\ pc'[r] # "write"
    BY <1>4, AnsweredStep, StageStep DEF WriteFails, Write
  <2>2. \A o \in Req \ {r} : pc'[o] # "write"
    BY <2>1 DEF Rest, WriterInv
  <2> QED
    BY <2>1, <2>2 DEF WriterInv
<1>5. ASSUME NEW r \in Req, Apply(r)
      PROVE  WriterInv'
  <2>1. Rest(r) /\ pc'[r] = "idle" /\ UNCHANGED <<configLock, intact>>
    BY <1>5, AnsweredStep DEF Apply
  <2> QED
    BY <2>1 DEF Rest, WriterInv
<1>6. CASE Start
  BY <1>6 DEF Start, WriterInv
<1>7. CASE Crash
  BY <1>7 DEF Crash, WriterInv
<1> QED
  BY <1>1, <1>2, <1>3, <1>4, <1>5, <1>6, <1>7 DEF AdminNext

-----------------------------------------------------------------------------
(* The empty file                                                          *)

LEMMA TornNext ==
  ASSUME ShapeInv, WriterInv, TornInv, AdminNext \/ Crash
  PROVE  TornInv'
<1>1. ASSUME NEW r \in Req, Rest(r), UNCHANGED <<configLock, intact, torn>>, pc[r] # "write"
      PROVE  TornInv'
  BY <1>1 DEF Rest, TornInv
<1>2. ASSUME NEW r \in Req, NEW input \in Input(PageOf[r]), Put(r, input)
      PROVE  TornInv'
  <2>1. Rest(r) /\ UNCHANGED <<configLock, intact, torn>> /\ pc[r] = "idle"
    BY <1>2, PutStep
  <2> QED
    BY <1>1, <2>1
<1>3. ASSUME NEW r \in Req, Truncate(r)
      PROVE  TornInv'
  <2>1. configLock' = r /\ pc'[r] = "write"
    BY <1>3, StageStep DEF Truncate
  <2> QED
    BY <2>1 DEF TornInv
<1>4. ASSUME NEW r \in Req, SaveFails(r) \/ Apply(r)
      PROVE  TornInv'
  <2>1. Rest(r) /\ UNCHANGED <<configLock, intact, torn>> /\ pc[r] # "write"
    BY <1>4, AnsweredStep DEF SaveFails, Apply
  <2> QED
    BY <1>1, <2>1
<1>5. ASSUME NEW r \in Req, Write(r) \/ WriteFails(r)
      PROVE  TornInv'
  BY <1>5 DEF Write, WriteFails, TornInv
<1>6. CASE Start
  BY <1>6 DEF Start, TornInv
<1>7. CASE Crash
  BY <1>7 DEF Crash, TornInv
<1> QED
  BY <1>2, <1>3, <1>4, <1>5, <1>6, <1>7 DEF AdminNext

-----------------------------------------------------------------------------
(* What ApplyConfig refuses                                                *)

LEMMA EntrySame ==
  ASSUME NEW page, file'[page] = file[page]
  PROVE  EntryValue(page)' = EntryValue(page)
  BY DEF EntryValue, Prepare, PrepareSettings, PrepareAccess, Unset

(* A step that leaves the entry of a page alone.                            *)
LEMMA AccountKept ==
  ASSUME NEW page \in Page, Accounted(page), NEW r \in Req, Rest(r),
         file'[page] = file[page],
         page \in unapplied => page \in unapplied',
         PageOf[r] = page /\ pc[r] = "apply" /\ RefusedBy(page, prepared[r])
           => page \in unapplied'
  PROVE  Accounted(page)'
<1>1. EntryValue(page)' = EntryValue(page)
  BY EntrySame
<1>2. CASE ~RefusedBy(page, EntryValue(page))
  BY <1>1, <1>2 DEF Accounted, RefusedBy
<1>3. CASE page \in unapplied
  BY <1>3 DEF Accounted
<1>4. ASSUME NEW x \in Req, PageOf[x] = page, pc[x] = "apply", RefusedBy(page, prepared[x])
      PROVE  Accounted(page)'
  <2>1. CASE x = r
    BY <1>4, <2>1 DEF Accounted
  <2>2. CASE x # r
    <3>1. pc'[x] = "apply" /\ RefusedBy(page, prepared'[x])
      BY <1>4, <2>2 DEF Rest
    <3>2. RefusedBy(page, prepared'[x]) <=> RefusedBy(page, prepared[x])'
      BY DEF RefusedBy
    <3> QED
      BY <1>4, <3>1, <3>2 DEF Accounted
  <2> QED
    BY <2>1, <2>2
<1> QED
  BY <1>2, <1>3, <1>4 DEF Accounted

LEMMA RefusalNext ==
  ASSUME ShapeInv, ValueInv, RefusalInv, AdminNext \/ Crash
  PROVE  RefusalInv'
<1>1. ASSUME NEW r \in Req, Rest(r), UNCHANGED <<file, unapplied>>, pc[r] # "apply"
      PROVE  RefusalInv'
  BY <1>1, AccountKept DEF RefusalInv
<1>2. ASSUME NEW r \in Req, NEW input \in Input(PageOf[r]), Put(r, input)
      PROVE  RefusalInv'
  <2>1. Rest(r) /\ UNCHANGED <<file, unapplied>> /\ pc[r] = "idle"
    BY <1>2, PutStep
  <2> QED
    BY <1>1, <2>1
<1>3. ASSUME NEW r \in Req, Truncate(r) \/ SaveFails(r) \/ WriteFails(r)
      PROVE  RefusalInv'
  <2>1. Rest(r) /\ UNCHANGED <<file, unapplied>> /\ pc[r] # "apply"
    BY <1>3, AnsweredStep, StageStep DEF Truncate, SaveFails, WriteFails
  <2> QED
    BY <1>1, <2>1
<1>4. ASSUME NEW r \in Req, Write(r)
      PROVE  RefusalInv'
  <2>1. /\ Rest(r) /\ pc'[r] = "apply" /\ prepared'[r] = prepared[r] /\ pc[r] = "write"
        /\ file' = [file EXCEPT ![PageOf[r]] = prepared[r]]
        /\ unapplied' = unapplied \ {PageOf[r]}
    BY <1>4, StageStep DEF Write
  <2>2. prepared[r] # NULL /\ Stable(PageOf[r], prepared[r]) /\ PageOf[r] \in Page
    BY <2>1, PageOfReq DEF Saving, ValueInv
  <2>3. ASSUME NEW page \in Page \ {PageOf[r]}
        PROVE  Accounted(page)'
    <3>1. file'[page] = file[page] /\ (page \in unapplied => page \in unapplied')
      BY <2>1, <2>2 DEF ShapeInv
    <3> QED
      BY <2>1, <3>1, AccountKept DEF RefusalInv
  <2>4. Accounted(PageOf[r])'
    <3>1. file'[PageOf[r]] = prepared[r]
      BY <2>1, <2>2 DEF ShapeInv
    <3>2. EntryValue(PageOf[r])' = prepared'[r]
      BY <2>1, <2>2, <3>1 DEF EntryValue, Stable, Prepare, PrepareSettings, PrepareAccess,
         Unset
    <3> QED
      BY <2>1, <3>2 DEF Accounted
  <2> QED
    BY <2>3, <2>4 DEF RefusalInv
<1>5. ASSUME NEW r \in Req, Apply(r)
      PROVE  RefusalInv'
  <2>1. /\ Rest(r) /\ UNCHANGED file
        /\ unapplied' = IF RefusedBy(PageOf[r], prepared[r])
                        THEN unapplied \cup {PageOf[r]} ELSE unapplied
    BY <1>5, AnsweredStep DEF Apply
  <2> QED
    BY <2>1, AccountKept DEF RefusalInv
<1>6. CASE Start
  <2>1. UNCHANGED file /\ \A page \in Page :
          Loaded(page) # NULL /\ ~RefusedBy(page, Loaded(page))
    BY <1>6 DEF Start
  <2>2. \A page \in Page : ~RefusedBy(page, EntryValue(page))
    BY <2>1, LoadedTyped
  <2> QED
    BY <2>1, <2>2, EntrySame DEF RefusalInv, Accounted, RefusedBy
<1>7. CASE Crash
  <2>1. /\ UNCHANGED file
        /\ unapplied' = unapplied \cup {PageOf[r] : r \in {x \in Req : pc[x] = "apply"}}
    BY <1>7 DEF Crash
  <2> QED
    BY <2>1, EntrySame DEF RefusalInv, Accounted, RefusedBy
<1> QED
  BY <1>2, <1>3, <1>4, <1>5, <1>6, <1>7 DEF AdminNext

-----------------------------------------------------------------------------
(* File and memory, where no two requests have overlapped                  *)

(* A request that goes on alone, and the file it may have written.          *)
LEMMA OverlapKept ==
  ASSUME AloneInv, NEW r \in Req, Rest(r), crossed \subseteq crossed',
         Saving(r)' => \/ Saving(r)
                       \/ \A o \in Req \ {r} : PageOf[o] = PageOf[r] /\ Saving(o)
                            => PageOf[r] \in crossed',
         \A page \in Page : \/ file'[page] = file[page]
                            \/ page = PageOf[r] /\ Saving(r),
         pc'[r] = "apply" /\ PageOf[r] \notin crossed' => file'[PageOf[r]] = prepared'[r]
  PROVE  /\ \A x, o \in Req : Saving(x)' /\ Saving(o)' /\ PageOf[x] = PageOf[o] =>
              x = o \/ PageOf[x] \in crossed'
         /\ \A x \in Req : pc'[x] = "apply" /\ PageOf[x] \notin crossed' =>
              file'[PageOf[x]] = prepared'[x]
<1>1. \A o \in Req \ {r} : Saving(o)' <=> Saving(o)
  BY DEF Rest, Saving
<1>2. \A o \in Req \ {r} : Saving(r)' /\ Saving(o) /\ PageOf[r] = PageOf[o]
        => PageOf[r] \in crossed'
  BY DEF AloneInv
<1>3. ASSUME NEW x \in Req, NEW o \in Req, Saving(x)', Saving(o)', PageOf[x] = PageOf[o]
      PROVE  x = o \/ PageOf[x] \in crossed'
  <2>1. CASE x # r /\ o # r
    BY <1>1, <1>3, <2>1 DEF AloneInv
  <2>2. CASE x = r \/ o = r
    BY <1>1, <1>2, <1>3, <2>2
  <2> QED
    BY <2>1, <2>2
<1>4. ASSUME NEW x \in Req \ {r}, pc'[x] = "apply", PageOf[x] \notin crossed'
      PROVE  file'[PageOf[x]] = prepared'[x]
  <2>1. pc[x] = "apply" /\ prepared'[x] = prepared[x] /\ Saving(x)
    BY <1>4 DEF Rest, Saving
  <2>2. file[PageOf[x]] = prepared[x] /\ ~(PageOf[x] = PageOf[r] /\ Saving(r))
    BY <1>4, <2>1 DEF AloneInv
  <2>3. file'[PageOf[x]] = file[PageOf[x]]
    BY <2>2, PageOfReq
  <2> QED
    BY <2>1, <2>2, <2>3
<1> QED
  BY <1>3, <1>4

LEMMA PageKept ==
  ASSUME NEW page \in Page, InEffect(page), NEW r \in Req, Rest(r),
         file'[page] = file[page], memory'[page] = memory[page],
         page \in unapplied => page \in unapplied',
         PageOf[r] = page => pc[r] # "apply"
  PROVE  InEffect(page)'
  BY EntrySame DEF InEffect, Applying, Rest

LEMMA EffectKept ==
  ASSUME EffectInv, NEW r \in Req, Rest(r), up, crossed \subseteq crossed',
         \A page \in Page \ {PageOf[r]} :
           /\ file'[page] = file[page] /\ memory'[page] = memory[page]
           /\ page \in unapplied => page \in unapplied',
         PageOf[r] \in crossed' \/ InEffect(PageOf[r])'
  PROVE  EffectInv'
<1>1. ASSUME NEW page \in Page \ crossed'
      PROVE  InEffect(page)'
  BY <1>1, PageKept DEF EffectInv
<1>2. EffectInv' <=> (up' => \A page \in Page \ crossed' : InEffect(page)')
  BY DEF EffectInv
<1> QED
  BY <1>1, <1>2

(* A step before the request has written changes nothing that counts.       *)
LEMMA EffectSame ==
  ASSUME EffectInv, NEW r \in Req, Rest(r), up, crossed \subseteq crossed',
         UNCHANGED <<file, memory, unapplied>>, pc[r] # "apply"
  PROVE  EffectInv'
<1>1. PageOf[r] \in crossed' \/ InEffect(PageOf[r])'
  BY PageOfReq, PageKept DEF EffectInv
<1> QED
  BY <1>1, EffectKept

LEMMA AloneNext ==
  ASSUME ShapeInv, ValueInv, AloneInv, AdminNext \/ Crash
  PROVE  AloneInv'
<1>1. ASSUME NEW r \in Req, NEW input \in Input(PageOf[r]), Put(r, input)
      PROVE  AloneInv'
  <2>1. /\ Rest(r) /\ up /\ pc[r] = "idle" /\ pc'[r] # "apply" /\ crossed \subseteq crossed'
        /\ UNCHANGED <<file, memory, unapplied>>
    BY <1>1, PutStep
  <2>2. Saving(r)' => \A o \in Req \ {r} : PageOf[o] = PageOf[r] /\ Saving(o)
                        => PageOf[r] \in crossed'
    BY <1>1, PutStep DEF Saving
  <2>3. EffectInv'
    BY <2>1, EffectSame DEF AloneInv
  <2>4. \A page \in Page : file'[page] = file[page]
    BY <2>1
  <2> QED
    BY <2>1, <2>2, <2>3, <2>4, OverlapKept DEF AloneInv
<1>2. ASSUME NEW r \in Req, Truncate(r) \/ SaveFails(r) \/ WriteFails(r)
      PROVE  AloneInv'
  <2>1. Rest(r) /\ pc'[r] # "apply"
    BY <1>2, AnsweredStep, StageStep DEF Truncate, SaveFails, WriteFails
  <2>2. pc[r] \in {"save", "write"} /\ UNCHANGED <<file, memory, crossed, unapplied>>
    BY <1>2 DEF Truncate, SaveFails, WriteFails
  <2>3. Saving(r) /\ up
    BY <2>2 DEF Saving, ValueInv
  <2>4. EffectInv'
    BY <2>1, <2>2, <2>3, EffectSame DEF AloneInv
  <2>5. \A page \in Page : file'[page] = file[page]
    BY <2>2
  <2> QED
    BY <2>1, <2>2, <2>3, <2>4, <2>5, OverlapKept DEF AloneInv
<1>3. ASSUME NEW r \in Req, Write(r)
      PROVE  AloneInv'
  <2>1. /\ Rest(r) /\ pc'[r] = "apply" /\ prepared'[r] = prepared[r] /\ pc[r] = "write"
        /\ UNCHANGED <<memory, up, crossed>> /\ file' = [file EXCEPT ![PageOf[r]] = prepared[r]]
        /\ unapplied' = unapplied \ {PageOf[r]}
    BY <1>3, StageStep DEF Write
  <2>2. Saving(r) /\ up
    BY <2>1 DEF Saving, ValueInv
  <2>3. /\ file'[PageOf[r]] = prepared[r]
        /\ \A page \in Page \ {PageOf[r]} :
             /\ file'[page] = file[page] /\ memory'[page] = memory[page]
             /\ page \in unapplied => page \in unapplied'
    BY <2>1, PageOfReq DEF ShapeInv
  <2>4. InEffect(PageOf[r])'
    BY <2>1 DEF InEffect, Applying
  <2>5. EffectInv'
    BY <2>1, <2>2, <2>3, <2>4, EffectKept DEF AloneInv
  <2> QED
    BY <2>1, <2>2, <2>3, <2>5, OverlapKept DEF AloneInv
<1>4. ASSUME NEW r \in Req, Apply(r)
      PROVE  AloneInv'
  <2> DEFINE page == PageOf[r]
  <2>1. /\ Rest(r) /\ pc'[r] = "idle" /\ pc[r] = "apply"
        /\ UNCHANGED <<file, up, crossed>>
        /\ memory' = IF RefusedBy(page, prepared[r])
                     THEN memory ELSE [memory EXCEPT ![page] = prepared[r]]
        /\ unapplied' = IF RefusedBy(page, prepared[r])
                        THEN unapplied \cup {page} ELSE unapplied
    BY <1>4, AnsweredStep DEF Apply
  <2>2. Saving(r) /\ up /\ page \in Page
    BY <2>1, PageOfReq DEF Saving, ValueInv
  <2>3. prepared[r] # NULL /\ Stable(page, prepared[r])
    BY <2>2 DEF ValueInv
  <2>4. \A g \in Page \ {page} : /\ file'[g] = file[g] /\ memory'[g] = memory[g]
                                 /\ g \in unapplied => g \in unapplied'
    BY <2>1 DEF ShapeInv
  <2>5. page \in crossed' \/ InEffect(page)'
    <3>1. SUFFICES ASSUME page \notin crossed
                   PROVE  InEffect(page)'
      BY <2>1
    <3>2. file[page] = prepared[r]
      BY <2>1, <3>1 DEF AloneInv
    <3>3. EntryValue(page)' = prepared[r]
      BY <2>1, <2>2, <2>3, <3>2, LoadedStored, EntrySame
    <3>4. \/ page[1] = "settings" /\ page \in unapplied'
          \/ memory'[page] = prepared[r]
      BY <2>1, <2>2 DEF ShapeInv, RefusedBy
    <3> QED
      BY <3>3, <3>4 DEF InEffect
  <2>6. EffectInv'
    BY <2>1, <2>2, <2>4, <2>5, EffectKept DEF AloneInv
  <2> QED
    BY <2>1, <2>2, <2>6, OverlapKept DEF AloneInv
<1>5. CASE Start
  <2>1. /\ UNCHANGED <<file, pc, prepared, crossed>>
        /\ \A page \in Page : memory'[page] = Loaded(page) /\ Loaded(page) # NULL
    BY <1>5 DEF Start
  <2>2. \A page \in Page : memory'[page] = EntryValue(page)'
    BY <2>1, LoadedTyped, EntrySame
  <2>3. EffectInv'
    BY <2>2 DEF EffectInv, InEffect
  <2> QED
    BY <2>1, <2>3 DEF AloneInv, Saving
<1>6. CASE Crash
  <2>1. ~up' /\ \A r \in Req : pc'[r] = "idle"
    BY <1>6 DEF Crash
  <2> QED
    BY <2>1 DEF AloneInv, Saving, EffectInv
<1> QED
  BY <1>1, <1>2, <1>3, <1>4, <1>5, <1>6 DEF AdminNext

-----------------------------------------------------------------------------
(* The password a form leaves blank                                        *)

LEMMA BlankNext ==
  ASSUME ShapeInv, ValueInv, AloneInv, BlankInv, AdminNext \/ Crash
  PROVE  BlankInv'
<1> DEFINE Blanks(x) ==
      /\ Saving(x) /\ PageOf[x][1] = "settings" /\ PageOf[x] \notin crossed /\ ~typed[x]
      => prepared[x].secret = memory[PageOf[x]].secret
<1>1. ASSUME NEW r \in Req, Rest(r), crossed \subseteq crossed', Blanks(r)',
             \A page \in Page \ {PageOf[r]} : memory'[page] = memory[page],
             Saving(r) \/ memory'[PageOf[r]] = memory[PageOf[r]]
      PROVE  BlankInv'
  <2>1. ASSUME NEW o \in Req \ {r}, Saving(o)', PageOf[o] \notin crossed'
        PROVE  /\ Saving(o) /\ prepared'[o] = prepared[o] /\ typed'[o] = typed[o]
               /\ memory'[PageOf[o]] = memory[PageOf[o]]
    BY <1>1, <2>1, PageOfReq DEF Rest, Saving, AloneInv
  <2> QED
    BY <1>1, <2>1 DEF BlankInv
<1>2. ASSUME NEW r \in Req, NEW input \in Input(PageOf[r]), Put(r, input)
      PROVE  BlankInv'
  <2> DEFINE page == PageOf[r]
             new  == Prepare(page, memory[page], input)
  <2>1. /\ Rest(r) /\ up /\ prepared'[r] = new /\ UNCHANGED memory /\ crossed \subseteq crossed'
        /\ Saving(r)' => /\ new # NULL
                         /\ page[1] = "settings" => typed'[r] = (input.secret # Blank)
    BY <1>2, PutStep DEF Saving
  <2>2. page \in Page
    BY PageOfReq
  <2>3. ASSUME page[1] = "settings", new # NULL, input.secret = Blank
        PROVE  new.secret = memory[page].secret
    <3>1. memory[page] \in Settings /\ input \in Settings
      BY <2>1, <2>2, <2>3 DEF ValueInv, IsValue, Input
    <3> HIDE DEF page
    <3> QED
      BY <2>2, <2>3, <3>1, SettingsStable
  <2>4. Blanks(r)'
    BY <2>1, <2>3
  <2> QED
    BY <1>1, <2>1, <2>4
<1>3. ASSUME NEW r \in Req, Truncate(r) \/ Write(r)
      PROVE  BlankInv'
  <2>1. /\ Rest(r) /\ prepared'[r] = prepared[r] /\ typed'[r] = typed[r]
        /\ pc[r] \in {"save", "write"} /\ UNCHANGED <<memory, crossed>>
    BY <1>3, StageStep DEF Truncate, Write
  <2>2. Blanks(r)'
    BY <2>1 DEF BlankInv, Saving
  <2> QED
    BY <1>1, <2>1, <2>2
<1>4. ASSUME NEW r \in Req, SaveFails(r) \/ WriteFails(r) \/ Apply(r)
      PROVE  BlankInv'
  <2>1. Rest(r) /\ pc'[r] = "idle" /\ UNCHANGED crossed
    BY <1>4, AnsweredStep DEF SaveFails, WriteFails, Apply
  <2>2. Saving(r)
    BY <1>4 DEF SaveFails, WriteFails, Apply, Saving
  <2>3. \A page \in Page \ {PageOf[r]} : memory'[page] = memory[page]
    <3>1. \/ memory' = memory
          \/ memory' = [memory EXCEPT ![PageOf[r]] = prepared[r]]
      BY <1>4 DEF SaveFails, WriteFails, Apply
    <3> QED
      BY <3>1 DEF ShapeInv
  <2>4. Blanks(r)'
    BY <2>1 DEF Saving
  <2> QED
    BY <1>1, <2>1, <2>2, <2>3, <2>4
<1>5. CASE Start \/ Crash
  <2>1. \A r \in Req : pc'[r] = "idle"
    BY <1>5 DEF Start, Crash, ValueInv, Saving, ShapeInv
  <2> QED
    BY <2>1 DEF BlankInv, Saving
<1> QED
  BY <1>2, <1>3, <1>4, <1>5 DEF AdminNext

-----------------------------------------------------------------------------
(* The administration as a whole                                           *)

LEMMA ConfigStart ==
  ASSUME AdminInit
  PROVE  ConfigInv
<1>1. ShapeInv
  <2>1. /\ file = [page \in Page |-> file[page]]
        /\ memory = [page \in Page |-> memory[page]]
        /\ prepared = [r \in Req |-> prepared[r]]
    BY DEF AdminInit
  <2>2. /\ typed \in [Req -> BOOLEAN] /\ up \in BOOLEAN
        /\ intact \in BOOLEAN /\ torn \in BOOLEAN
    BY Zenon DEF AdminInit
  <2>3. /\ pc \in [Req -> {"idle", "save", "write", "apply"}]
        /\ configLock \in Req \cup {NULL} /\ crossed \subseteq Page /\ unapplied \subseteq Page
        /\ puts \in 0 .. MaxPut /\ starts \in 0 .. MaxStart
    BY BoundAssumption DEF AdminInit
  <2> QED
    BY <2>1, <2>2, <2>3 DEF ShapeInv
<1>2. ValueInv
  BY DEF AdminInit, ValueInv, Saving
<1>3. WriterInv
  BY DEF AdminInit, WriterInv
<1>4. AloneInv
  BY DEF AdminInit, AloneInv, Saving, EffectInv
<1>5. BlankInv
  BY DEF AdminInit, BlankInv, Saving
<1>6. TornInv
  BY DEF AdminInit, TornInv
<1>7. RefusalInv
  <2>1. \A page \in Page : file[page] = NULL
    BY DEF AdminInit
  <2> QED
    BY <2>1, UnsetLoaded DEF RefusalInv, Accounted
<1> QED
  BY <1>1, <1>2, <1>3, <1>4, <1>5, <1>6, <1>7 DEF ConfigInv

LEMMA ConfigStutter ==
  ASSUME ConfigInv, UNCHANGED vars
  PROVE  ConfigInv'
<1>1. ShapeInv'
  BY DEF ConfigInv, ShapeInv, vars
<1>2. ValueInv'
  BY DEF ConfigInv, ValueInv, Saving, Stable, IsValue, Prepare, PrepareSettings,
         PrepareAccess, Unset, vars
<1>3. WriterInv'
  BY DEF ConfigInv, WriterInv, vars
<1>4. AloneInv'
  <2>1. \A page : EntryValue(page)' = EntryValue(page)
    BY EntrySame DEF vars
  <2>2. EffectInv'
    BY <2>1 DEF ConfigInv, AloneInv, EffectInv, InEffect, Applying, vars
  <2> QED
    BY <2>2 DEF ConfigInv, AloneInv, Saving, vars
<1>5. BlankInv'
  BY DEF ConfigInv, BlankInv, Saving, vars
<1>6. TornInv'
  BY DEF ConfigInv, TornInv, vars
<1>7. RefusalInv'
  <2>1. \A page : EntryValue(page)' = EntryValue(page)
    BY EntrySame DEF vars
  <2> QED
    BY <2>1 DEF ConfigInv, RefusalInv, Accounted, RefusedBy, vars
<1> QED
  BY <1>1, <1>2, <1>3, <1>4, <1>5, <1>6, <1>7 DEF ConfigInv

LEMMA ConfigNext ==
  ASSUME ConfigInv, [Next]_<<vars, dispatchVars>>
  PROVE  ConfigInv'
<1>1. CASE AdminNext \/ Crash
  BY <1>1, ShapeNext, ValueNext, WriterNext, TornNext, RefusalNext, AloneNext, BlankNext
     DEF ConfigInv
<1>2. CASE UNCHANGED vars
  BY <1>2, ConfigStutter
<1> QED
  BY <1>1, <1>2 DEF Next, Process, Handle, CrashAll

LEMMA ConfigHolds == Spec => []ConfigInv
<1>1. Init => ConfigInv
  BY ConfigStart DEF Init
<1>2. ConfigInv /\ [Next]_<<vars, dispatchVars>> => ConfigInv'
  BY ConfigNext
<1> QED
  BY <1>1, <1>2, PTL DEF Spec

(* Whatever requests leave blank, overlap or fail, and wherever the process *)
(* ends, it starts again, unless the file is being written, a write failed  *)
(* or was cut short, or settings were saved that ApplyConfig refuses:       *)
(* InitConfig and the two loaders after SavePluginSettings and              *)
(* SavePluginAccess.                                                        *)
THEOREM Starts == Spec => []StartsAgain
<1>1. ConfigInv => StartsAgain
  <2>1. SUFFICES ASSUME ConfigInv, intact, NEW page \in Page
                 PROVE  /\ Loaded(page) # NULL
                        /\ RefusedBy(page, Loaded(page)) => Applying(page) \/ page \in unapplied
    BY DEF ConfigInv, TornInv, StartsAgain
  <2>2. Loaded(page) = EntryValue(page)
    BY <2>1 DEF Loaded
  <2>3. EntryValue(page) # NULL
    <3>1. CASE file[page] = NULL
      BY <3>1, UnsetLoaded
    <3>2. CASE file[page] # NULL
      BY <2>1, <3>2, LoadedStored DEF ConfigInv, ValueInv
    <3> QED
      BY <3>1, <3>2
  <2> QED
    BY <2>1, <2>2, <2>3 DEF ConfigInv, RefusalInv, Accounted, Applying
<1> QED
  BY <1>1, ConfigHolds, PTL

(* Where the requests for a page come one after the other and the file is   *)
(* whole, the process goes by what a restart would load, but for a page     *)
(* that has been saved and not yet applied, and for one that ApplyConfig    *)
(* refused after it was saved.                                              *)
THEOREM SavedEffective == Spec => []SavedIsInEffect
<1>1. ConfigInv => SavedIsInEffect
  BY DEF ConfigInv, AloneInv, EffectInv, InEffect, SavedIsInEffect, Loaded
<1> QED
  BY <1>1, ConfigHolds, PTL

(* The mutex of lib/config serialises the emptying and the writing of the   *)
(* file: whoever is about to write holds it and finds the file empty.       *)
THEOREM OneWriter == Spec => []WriterInv
<1>1. ConfigInv => WriterInv
  BY DEF ConfigInv
<1> QED
  BY <1>1, ConfigHolds, PTL

(* A settings form that leaves the password blank leaves it as it is, where *)
(* the requests for the page come one after the other: the merging in       *)
(* prepareConfiguration, and what ApplyConfiguration puts into memory.      *)
THEOREM SecretSurvives == Spec => SecretSurvivesBlank
<1> DEFINE SecretKept(r) ==
      (/\ PageOf[r][1] = "settings" /\ PageOf[r] \notin crossed
       /\ pc[r] = "apply" /\ pc'[r] = "idle" /\ ~typed[r] /\ up')
      => memory'[PageOf[r]].secret = memory[PageOf[r]].secret
<1>1. ASSUME ConfigInv, [Next]_<<vars, dispatchVars>>
      PROVE  [\A r \in Req : SecretKept(r)]_vars
  <2>1. SUFFICES ASSUME NEW r \in Req, pc[r] = "apply", pc'[r] = "idle", up',
                        PageOf[r][1] = "settings", PageOf[r] \notin crossed, ~typed[r]
                 PROVE  memory'[PageOf[r]].secret = memory[PageOf[r]].secret
    OBVIOUS
  <2>2. PageOf[r] \in Page /\ ShapeInv
    BY <1>1, PageOfReq DEF ConfigInv
  <2>3. prepared[r].secret = memory[PageOf[r]].secret
    BY <1>1, <2>1 DEF ConfigInv, BlankInv, Saving
  <2>4. ASSUME NEW o \in Req,
               \/ \E input \in Input(PageOf[o]) : Put(o, input)
               \/ Truncate(o) \/ SaveFails(o) \/ Write(o) \/ WriteFails(o)
        PROVE  pc'[r] = pc[r] \/ UNCHANGED memory
    BY <2>4 DEF Put, Truncate, SaveFails, Write, WriteFails
  <2>5. ASSUME NEW o \in Req, Apply(o)
        PROVE  memory'[PageOf[r]].secret = memory[PageOf[r]].secret
    <3>1. /\ \/ memory' = memory
             \/ memory' = [memory EXCEPT ![PageOf[o]] = prepared[o]]
          /\ Rest(o)
      BY <2>2, <2>5, AnsweredStep DEF Apply
    <3>2. o = r
      BY <2>1, <3>1 DEF Rest
    <3> QED
      BY <2>2, <2>3, <3>1, <3>2 DEF ShapeInv
  <2>6. CASE Start \/ UNCHANGED vars
    BY <2>1, <2>6 DEF Start, vars
  <2>7. CASE Crash
    BY <2>1, <2>7 DEF Crash
  <2> QED
    BY <1>1, <2>1, <2>4, <2>5, <2>6, <2>7
       DEF Next, AdminNext, Process, Handle, CrashAll, vars
<1>2. ConfigInv /\ [Next]_<<vars, dispatchVars>> => [\A r \in Req : SecretKept(r)]_vars
  BY <1>1
<1> QED
  BY <1>2, ConfigHolds, PTL DEF Spec, SecretSurvivesBlank

-----------------------------------------------------------------------------
(* The two walks down the tree of subcommands                              *)

LEMMA LastExists ==
  ASSUME NEW n \in Nat, NEW known \in SUBSET (1 .. n), known # {}
  PROVE  \E k \in known : \A j \in known : j <= k
<1> DEFINE rests == {n - k : k \in known}
<1>1. rests \subseteq Nat /\ rests # {}
  <2>1. ASSUME NEW k \in known
        PROVE  n - k \in Nat
    <3>1. k \in 1 .. n
      OBVIOUS
    <3> QED
      BY <3>1
  <2>2. PICK k \in known : TRUE
    OBVIOUS
  <2>3. n - k \in rests
    OBVIOUS
  <2> QED
    BY <2>1, <2>3
<1>2. PICK least \in rests : \A other \in rests : <<other, least>> \notin OpToRel(<, Nat)
  BY <1>1, WFMin, NatLessThanWellFounded
<1>3. PICK k \in known : least = n - k
  BY <1>2
<1>4. ASSUME NEW j \in known
      PROVE  j <= k
  <2>1. n - j \in rests /\ n - j \in Nat /\ least \in Nat
    BY <1>1
  <2>2. ~(n - j < least)
    BY <1>2, <2>1 DEF OpToRel
  <2> QED
    BY <1>3, <2>2
<1> QED
  BY <1>4

(* How far the words lead: to root itself, or to a command below it.        *)
LEMMA WalkLeads ==
  ASSUME NEW words \in Seq(STRING), words # <<>>, Root(words) \in Path
  PROVE  \E k \in 1 .. Len(words) :
           /\ Walk(Root(words), words) = Root(words) \o SubSeq(words, 2, k)
           /\ Walk(Root(words), words) \in Path
<1> DEFINE root    == Root(words)
           path(k) == root \o SubSeq(words, 2, k)
           known   == {k \in 1 .. Len(words) : path(k) \in Path}
           last    == CHOOSE k \in known : \A j \in known : j <= k
<1>1. Len(words) \in Nat /\ 1 \in 1 .. Len(words)
  OBVIOUS
<1>2. path(1) = root
  <2>1. SubSeq(words, 2, 1) = <<>>
    BY SubSeqEmpty
  <2>2. root \in Seq(STRING)
    BY DEF Root
  <2> QED
    BY <2>1, <2>2, ConcatEmptySeq
<1>3. known \in SUBSET (1 .. Len(words)) /\ known # {}
  BY <1>1, <1>2
<1>4. \E k \in known : \A j \in known : j <= k
  <2> HIDE DEF known
  <2> QED
    BY <1>1, <1>3, LastExists
<1>5. last \in known
  BY <1>4
<1>6. Walk(Root(words), words) = path(last)
  BY DEF Walk
<1> QED
  BY <1>5, <1>6

LEMMA LeafWalk ==
  ASSUME NEW words \in Seq(STRING), words # <<>>, Root(words) \in Path, Leaf(Root(words))
  PROVE  Walk(Root(words), words) = Root(words)
<1> DEFINE root == Root(words)
           end  == Walk(root, words)
<1>1. PICK k \in 1 .. Len(words) : end = root \o SubSeq(words, 2, k) /\ end \in Path
  BY WalkLeads
<1> DEFINE rest == SubSeq(words, 2, k)
<1>2. root \in Seq(STRING) /\ Len(root) = 1 /\ rest \in Seq(STRING)
  BY DEF Root
<1> HIDE DEF root, rest
<1>3. Len(root \o rest) = 1 + Len(rest) /\ SubSeq(root \o rest, 1, 1) = root
  BY <1>2, ConcatProperties, SubSeqOfConcat1, SubSeqFull
<1>4. root \o rest \in Path
  BY <1>1 DEF rest
<1>5. Leaf(root)
  BY DEF root
<1>6. Len(rest) = 0
  <2>1. ~(Len(root \o rest) > Len(root))
    BY <1>2, <1>3, <1>4, <1>5 DEF Leaf
  <2>2. Len(rest) \in Nat
    BY <1>2
  <2> QED
    BY <1>2, <1>3, <2>1, <2>2
<1>7. rest = <<>>
  BY <1>2, <1>6
<1>8. end = root \o rest
  BY <1>1 DEF rest
<1>9. root \o <<>> = root
  BY <1>2, ConcatEmptySeq
<1> QED
  BY <1>7, <1>8, <1>9 DEF root

LEMMA Filtered ==
  ASSUME NEW words \in Seq(STRING), words # <<>>
  PROVE  /\ FilterAt(words) \in Seq(STRING) /\ FilterAt(words) # <<>>
         /\ words[1] # At => FilterAt(words) = words
         /\ FilterAt(words) # words =>
              words[1] = At /\ Len(words) > 1 /\ FilterAt(words)[1] = words[2]
<1>1. CASE Len(words) > 1 /\ words[1] = At
  <2> DEFINE tail == Tail(words)
  <2>1. /\ tail \in Seq(STRING) /\ Len(tail) = Len(words) - 1
        /\ \A i \in 1 .. Len(tail) : tail[i] = words[i + 1]
    BY HeadTailProperties
  <2>2. FilterAt(words) = tail
    BY <1>1 DEF FilterAt
  <2> HIDE DEF tail
  <2>3. Len(words) \in Nat /\ Len(tail) \in Nat
    BY <2>1
  <2>4. 1 \in 1 .. Len(tail)
    BY <1>1, <2>1, <2>3
  <2>5. tail[1] = words[2]
    BY <2>1, <2>4
  <2>6. Len(<<>>) = 0
    OBVIOUS
  <2>7. tail # <<>>
    BY <2>3, <2>4, <2>6
  <2> QED
    BY <1>1, <2>1, <2>2, <2>5, <2>7
<1>2. CASE ~(Len(words) > 1 /\ words[1] = At)
  BY <1>2 DEF FilterAt
<1> QED
  BY <1>1, <1>2

(* Why none is called where the rules were asked about a command.           *)
Excused(m) ==
  \/ Len(m.text) > 1 /\ m.text[2] = At
  \/ m.private /\ \E k \in 1 .. Len(Resolved(m)) :
                    SubSeq(Resolved(m), 1, k) \in GroupOnly

(* The parser in the goroutine finds what the first one found.              *)
LEMMA Agree ==
  ASSUME NEW m \in Message, Root(Prefix(m)) \in Path
  PROVE  /\ Resolved(m) \in Path
         /\ Handled(m) = Resolved(m) \/ (Handled(m) = NULL /\ Excused(m))
<1> DEFINE text   == m.text
           words  == FilterAt(text)
           prefix == Prefix(m)
           root   == Root(prefix)
           end    == Walk(root, prefix)
<1>1. text \in Seq(STRING) /\ text # <<>> /\ words \in Seq(STRING) /\ words # <<>>
  BY MessageAssumption, DispatchAssumption, Filtered DEF Message
<1>2. CASE m.private
  <2>1. Content(m) = text /\ prefix = text
    BY <1>2 DEF Content, Prefix
  <2>2. text[1] # At
    BY <2>1, MentionAssumption DEF Root
  <2>3. words = text
    BY <1>1, <2>2, Filtered
  <2>4. Resolved(m) = end /\ prefix = words
    BY <2>1, <2>3 DEF Resolved
  <2>5. end \in Path
    BY <1>1, <2>1, WalkLeads
  <2>6. Leaf(root) => end = root
    BY <1>1, <2>1, LeafWalk
  <2>7. \/ Handled(m) = end
        \/ /\ Handled(m) = NULL
           /\ \E k \in 2 .. Len(end) : SubSeq(end, 1, k) \in GroupOnly
    BY <2>4, <2>6 DEF Handled
  <2> QED
    BY <1>2, <2>4, <2>5, <2>7 DEF Excused
<1>3. CASE ~m.private
  <2>1. Content(m) = words /\ prefix = FilterAt(words)
    BY <1>3 DEF Content, Prefix, FilterAt
  <2>2. Resolved(m) = end
    BY <2>1 DEF Resolved
  <2>3. prefix \in Seq(STRING) /\ prefix # <<>>
    BY <1>1, <2>1, Filtered
  <2>4. end \in Path /\ (Leaf(root) => end = root)
    BY <2>3, WalkLeads, LeafWalk
  <2>5. CASE prefix = words
    BY <1>3, <2>2, <2>4, <2>5 DEF Handled
  <2>6. CASE prefix # words
    <3>1. words[1] = At
      BY <1>1, <2>1, <2>6, Filtered
    <3>2. Root(words) \notin Path
      BY <3>1, MentionAssumption DEF Root
    <3>3. words # text
      <4>1. Len(words) > 1
        BY <1>1, <2>1, <2>6, Filtered
      <4> QED
        BY <3>1, <4>1, <1>1, <2>1, <2>6 DEF FilterAt
    <3>4. Len(text) > 1 /\ text[2] = At
      BY <1>1, <3>1, <3>3, Filtered
    <3> QED
      BY <2>2, <2>4, <3>2, <3>4 DEF Handled, Excused
  <2> QED
    BY <2>5, <2>6
<1> QED
  BY <1>2, <1>3

-----------------------------------------------------------------------------
(* Messages                                                                *)

LEMMA DispatchStart ==
  ASSUME Init
  PROVE  DispatchInv
<1>1. messages \in 0 .. MaxMessage
  BY SentAssumption DEF Init
<1>2. running \in BOOLEAN
  BY Zenon DEF Init
<1> QED
  BY <1>1, <1>2 DEF Init, DispatchInv

LEMMA DispatchNext ==
  ASSUME DispatchInv, [Next]_<<vars, dispatchVars>>
  PROVE  DispatchInv'
<1>1. CASE UNCHANGED dispatchVars
  BY <1>1 DEF DispatchInv, dispatchVars
<1>2. ASSUME NEW m \in Sent, Process(m)
      PROVE  DispatchInv'
  <2>1. /\ message' = m /\ judged' = Resolved(m) /\ running' = TRUE /\ ran' = NULL
        /\ messages' = messages + 1 /\ messages < MaxMessage
    BY <1>2 DEF Process
  <2>2. Root(Prefix(m)) \in Path
    BY <1>2 DEF Process, Admitted
  <2>3. running' \in BOOLEAN
    BY <2>1, Zenon
  <2>4. messages' \in 0 .. MaxMessage
    BY <2>1, SentAssumption DEF DispatchInv
  <2>5. m # NULL
    BY MessageAssumption
  <2> QED
    BY <2>1, <2>2, <2>3, <2>4, <2>5 DEF DispatchInv
<1>3. CASE Handle
  <2>1. /\ running /\ running' = FALSE /\ ran' = Handled(message)
        /\ UNCHANGED <<message, judged, messages>>
    BY <1>3 DEF Handle
  <2>2. running' \in BOOLEAN
    BY <2>1, Zenon
  <2> QED
    BY <2>1, <2>2 DEF DispatchInv
<1>4. CASE CrashAll
  <2>1. /\ message' = NULL /\ judged' = NULL /\ running' = FALSE /\ ran' = NULL
        /\ UNCHANGED messages
    BY <1>4 DEF CrashAll
  <2>2. running' \in BOOLEAN
    BY <2>1, Zenon
  <2> QED
    BY <2>1, <2>2 DEF DispatchInv
<1> QED
  BY <1>1, <1>2, <1>3, <1>4 DEF Next

LEMMA DispatchHolds == Spec => []DispatchInv
<1>1. Init => DispatchInv
  BY DispatchStart
<1>2. DispatchInv /\ [Next]_<<vars, dispatchVars>> => DispatchInv'
  BY DispatchNext
<1> QED
  BY <1>1, <1>2, PTL DEF Spec

(* The variables of the administration and of the dispatch are of their     *)
(* types: values that a form, ValidateConfig or LoadAccessConfigurations    *)
(* has let through.                                                         *)
THEOREM TypeCorrect == Spec => []TypeOK
<1>1. ASSUME ConfigInv, DispatchInv
      PROVE  TypeOK
  <2>1. AdminTypeOK
    <3>1. \A page \in Page :
            /\ file[page] = NULL \/ IsValue(page, file[page])
            /\ IF up THEN IsValue(page, memory[page]) ELSE memory[page] = NULL
      BY <1>1 DEF ConfigInv, ValueInv, Stable
    <3>2. \A r \in Req : IF pc[r] = "idle" THEN prepared[r] = NULL
                                           ELSE IsValue(PageOf[r], prepared[r])
      BY <1>1 DEF ConfigInv, ShapeInv, ValueInv, Saving, Stable
    <3> QED
      BY <1>1, <3>1, <3>2 DEF ConfigInv, ShapeInv, AdminTypeOK
  <2>2. CASE message = NULL
    BY <1>1, <2>1, <2>2 DEF DispatchInv, TypeOK
  <2>3. CASE message # NULL
    <3>1. message \in Message /\ Root(Prefix(message)) \in Path
      BY <1>1, <2>3, MessageAssumption DEF DispatchInv
    <3>2. judged \in Path /\ Handled(message) \in Path \cup {NULL}
      BY <1>1, <2>3, <3>1, Agree DEF DispatchInv
    <3>3. ran \in Path \cup {NULL} /\ (running => ran = NULL)
      BY <1>1, <2>3, <3>2 DEF DispatchInv
    <3> QED
      BY <1>1, <2>1, <2>3, <3>1, <3>2, <3>3 DEF DispatchInv, TypeOK
  <2> QED
    BY <2>2, <2>3
<1>2. ConfigInv /\ DispatchInv => TypeOK
  BY <1>1
<1> QED
  BY <1>2, ConfigHolds, DispatchHolds, PTL

(* The handler that runs is that of the path the access rules were asked    *)
(* about: ProcessPayload and subCommandHandleFunc parse alike, but for a    *)
(* second mention and for a private message on the way to a group command.  *)
THEOREM RunsJudged == Spec => []RunsWhatWasJudged
<1>1. DispatchInv => RunsWhatWasJudged
  <2>1. SUFFICES ASSUME DispatchInv, message # NULL, ~running
                 PROVE  \/ ran = judged
                        \/ /\ ran = NULL
                           /\ \/ Len(message.text) > 1 /\ message.text[2] = At
                              \/ message.private /\ \E k \in 1 .. Len(judged) :
                                                      SubSeq(judged, 1, k) \in GroupOnly
    BY DEF RunsWhatWasJudged
  <2>2. /\ message \in Message /\ Root(Prefix(message)) \in Path
        /\ judged = Resolved(message) /\ ran = Handled(message)
    BY <2>1, MessageAssumption DEF DispatchInv
  <2> QED
    BY <2>2, Agree DEF Excused
<1> QED
  BY <1>1, DispatchHolds, PTL

(* The access rule of a path, among the rules of one plugin.                *)
RuleOf(access, path) ==
  IF path \in DOMAIN access.commands THEN access.commands[path] ELSE access.default

(* What CanUse makes of a rule.                                             *)
Allows(rule, persons) ==
  \/ rule.mode = "off"
  \/ rule.mode = "whitelist" /\ rule.listed \cap persons # {}
  \/ rule.mode = "blacklist" /\ ~(rule.listed \cap persons # {})

LEMMA CanUseAllows ==
  ASSUME NEW path, NEW persons, CanUse(path, persons),
         RuleOf(memory[<<"access", OwnerOf[path]>>], path).mode \in Mode
  PROVE  Allows(RuleOf(memory[<<"access", OwnerOf[path]>>], path), persons)
<1> DEFINE rule == RuleOf(memory[<<"access", OwnerOf[path]>>], path)
           hit  == rule.listed \cap persons # {}
<1>1. /\ rule.mode = "whitelist" => hit
      /\ rule.mode = "blacklist" => ~hit
  BY DEF CanUse, RuleOf
<1>2. rule.mode \in {"off", "whitelist", "blacklist"}
  BY DEF Mode
<1> HIDE DEF rule
<1> QED
  BY <1>1, <1>2 DEF Allows, rule

(* The access rules that the panel shows as saved.                          *)
Shown(page) == IF file[page] = NULL THEN Unset(page) ELSE file[page]

(* What is loaded of them is the same, with no override that says "off".    *)
LEMMA ShownLoaded ==
  ASSUME ValueInv, NEW page \in Page, page[1] = "access"
  PROVE  /\ EntryValue(page) = Shown(page) /\ Shown(page).default.mode \in Mode
         /\ \A path \in DOMAIN Shown(page).commands :
              /\ Shown(page).commands[path].mode \in Mode
              /\ Shown(page).commands[path].mode # "off"
<1>1. CASE file[page] = NULL
  <2>1. Shown(page) = [default |-> [mode |-> "off", listed |-> {}], commands |-> <<>>]
    BY <1>1 DEF Shown, Unset
  <2>2. DOMAIN <<>> = {}
    OBVIOUS
  <2>3. EntryValue(page) = Shown(page)
    BY <1>1, UnsetLoaded DEF Shown
  <2> QED
    BY <2>1, <2>2, <2>3 DEF Mode
<1>2. CASE file[page] # NULL
  <2>1. Stable(page, file[page])
    BY <1>2 DEF ValueInv
  <2>2. IsValue(page, file[page]) /\ IsForm(page, file[page])
    BY <2>1, StableFacts, ValueForm
  <2>3. PrepareAccess(page[2], file[page]) = file[page]
    BY <2>1 DEF Stable, Prepare
  <2>4. \A path \in DOMAIN file[page].commands : file[page].commands[path].mode # "off"
    BY <1>2, <2>2, <2>3, AccessStable
  <2>5. /\ file[page].default \in Rule
        /\ \A path \in DOMAIN file[page].commands : file[page].commands[path] \in Rule
    BY <2>2 DEF IsValue
  <2>6. EntryValue(page) = Shown(page) /\ Shown(page) = file[page]
    BY <1>2, <2>1, LoadedStored DEF Shown
  <2> QED
    BY <2>4, <2>5, <2>6 DEF Rule
<1> QED
  BY <1>1, <1>2

(* A handler is only started when the rules that the panel shows as saved   *)
(* let the sender use the command, unless requests for the page overlap or  *)
(* one of them is between its save and its apply: CanUse in ProcessPayload. *)
THEOREM StartsFollow == Spec => StartsFollowThePanel
<1> DEFINE AccessPage == <<"access", OwnerOf[judged']>>
           Own     == judged' \in DOMAIN Shown(AccessPage).commands
                      => Shown(AccessPage).commands[judged'].mode # "off"
           Follows ==
             \/ AccessPage \in crossed
             \/ \E r \in Req : PageOf[r] = AccessPage /\ pc[r] = "apply"
             \/ Allows(RuleOf(Shown(AccessPage), judged'), message'.persons)
<1>1. ASSUME ConfigInv, NEW m \in Sent, Process(m)
      PROVE  Own /\ Follows
  <2>1. /\ up /\ message' = m /\ judged' = Resolved(m) /\ Admitted(m)
    BY <1>1 DEF Process
  <2>2. judged' \in Path /\ CanUse(judged', message'.persons)
    BY <2>1, MessageAssumption, Agree DEF Admitted
  <2>3. AccessPage \in Page /\ AccessPage[1] = "access"
    BY <2>2, OwnerAssumption DEF Page
  <2>4. /\ Own /\ EntryValue(AccessPage) = Shown(AccessPage)
        /\ RuleOf(Shown(AccessPage), judged').mode \in Mode
    BY <1>1, <2>3, ShownLoaded DEF ConfigInv, RuleOf
  <2>5. ASSUME AccessPage \notin crossed,
               ~(\E r \in Req : PageOf[r] = AccessPage /\ pc[r] = "apply")
        PROVE  Allows(RuleOf(Shown(AccessPage), judged'), message'.persons)
    <3>1. InEffect(AccessPage) /\ ~Applying(AccessPage)
      BY <1>1, <2>1, <2>3, <2>5 DEF ConfigInv, AloneInv, EffectInv, Applying
    <3>2. memory[AccessPage] = EntryValue(AccessPage)
      BY <2>3, <3>1 DEF InEffect
    <3> QED
      BY <2>2, <2>4, <3>2, CanUseAllows
  <2> QED
    BY <2>4, <2>5
<1>2. ASSUME ConfigInv, [Next]_<<vars, dispatchVars>>, running', ~running
      PROVE  Own /\ Follows
  BY <1>1, <1>2 DEF Next, Handle, CrashAll, dispatchVars
<1> DEFINE Asked == LET page   == <<"access", OwnerOf[judged']>>
                        access == IF file[page] = NULL THEN Unset(page) ELSE file[page]
                        own    == judged' \in DOMAIN access.commands
                                  /\ access.commands[judged'].mode # "off"
                        rule   == IF own THEN access.commands[judged'] ELSE access.default
                        hit    == rule.listed \cap message'.persons # {}
                    IN  \/ page \in crossed
                        \/ \E r \in Req : PageOf[r] = page /\ pc[r] = "apply"
                        \/ rule.mode = "off"
                        \/ rule.mode = "whitelist" /\ hit
                        \/ rule.mode = "blacklist" /\ ~hit
<1>3. ASSUME Own, Follows
      PROVE  Asked
  <2> DEFINE access == IF file[AccessPage] = NULL THEN Unset(AccessPage) ELSE file[AccessPage]
             own    == judged' \in DOMAIN access.commands
                       /\ access.commands[judged'].mode # "off"
             rule   == IF own THEN access.commands[judged'] ELSE access.default
  <2>1. Shown(AccessPage) = access
    BY DEF Shown
  <2>2. rule = RuleOf(Shown(AccessPage), judged')
    BY <1>3, <2>1 DEF RuleOf
  <2>3. \/ AccessPage \in crossed
        \/ \E r \in Req : PageOf[r] = AccessPage /\ pc[r] = "apply"
        \/ Allows(rule, message'.persons)
    BY <1>3, <2>2
  <2> QED
    BY <2>3 DEF Allows
<1>4. ConfigInv /\ [Next]_<<vars, dispatchVars>> =>
        [running' /\ ~running => Asked]_<<vars, dispatchVars>>
  BY <1>2, <1>3
<1> QED
  BY <1>4, ConfigHolds, PTL DEF Spec, StartsFollowThePanel

=============================================================================
