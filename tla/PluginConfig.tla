---------------------------- MODULE PluginConfig ----------------------------
(***************************************************************************)
(* A change made on a plugin's page of the administration panel, from the  *)
(* PUT handlers of lib/admin/admin.go through lib/plugin/register.go and    *)
(* lib/config/config.go, and the loading of config.json in main.go.        *)
(*                                                                         *)
(* A page is a section, "settings" or "access", of one plugin.  A request  *)
(* prepares its value from the input and from what is in memory, writes    *)
(* it to the file, and only then puts it into memory; the three steps take *)
(* the registry's lock, the file's lock and the registry's lock again, and *)
(* anything may happen in between.  The hook ConfigSaved, which no plugin  *)
(* of the repository sets, changes nothing between the last two.           *)
(*                                                                         *)
(* os.WriteFile empties the file before it writes: `intact' is FALSE while *)
(* the file is empty, and `file' is then only what was read from it before *)
(* that, which the writer has and a start has not.                         *)
(***************************************************************************)
EXTENDS Integers, FiniteSets

CONSTANTS
  Req,        \* requests; each may be sent again once it has been answered
  Plugin,
  PageOf,     \* [Req -> Page]
  Plain,      \* what the fields hold that are no passwords
  Zero,       \* the zero values of those fields
  Secret,     \* passwords; Blank is the empty one
  Blank,
  Accepted,   \* [Plugin -> SUBSET Settings]: the hook ValidateConfig
  Refused,    \* [Plugin -> SUBSET Settings]: the hook ApplyConfig fails
  Path,       \* the commands and subcommands of the plugins, as paths
  OwnerOf,    \* [Path -> Plugin]
  Person,     \* the OpenIDs of members and groups
  AccessInput, \* the access forms that are sent
  MaxPut,     \* bound: requests in all
  MaxStart,   \* bound: how often the process is started
  NULL

Page == {"settings", "access"} \X Plugin

Settings == [plain : Plain, secret : Secret \cup {Blank}]

Mode == {"off", "whitelist", "blacklist"}

(* A rule as it is stored, and as a form may hold it: no mode at all counts *)
(* as "off", any other word is an error.  The lists of users and of groups  *)
(* hold different OpenIDs and are one set here.                             *)
Rule == [mode : Mode, listed : SUBSET Person]

IsFormRule(rule) ==
  rule = [mode |-> rule.mode, listed |-> rule.listed] /\ rule.listed \subseteq Person

(* The value of a page nobody has saved yet. *)
Unset(page) ==
  IF page[1] = "settings"
  THEN [plain |-> Zero, secret |-> Blank]
  ELSE [default |-> [mode |-> "off", listed |-> {}], commands |-> <<>>]

ASSUME PageAssumption    == PageOf \in [Req -> Page]
ASSUME ValueAssumption   == Zero \in Plain /\ Blank \notin Secret
ASSUME OwnerAssumption   == OwnerOf \in [Path -> Plugin]
ASSUME FormAssumption    ==
  \A form \in AccessInput :
    /\ IsFormRule(form.default)
    /\ \A path \in DOMAIN form.commands : IsFormRule(form.commands[path])
ASSUME NullAssumption    == NULL \notin Req \cup {Unset(page) : page \in Page}
ASSUME HookAssumption    == /\ Accepted \in [Plugin -> SUBSET Settings]
                            /\ Refused \in [Plugin -> SUBSET Settings]
ASSUME DefaultAssumption ==
  \A p \in Plugin :
    [plain |-> Zero, secret |-> Blank] \in Accepted[p] \ Refused[p]
ASSUME BoundAssumption   == MaxPut \in Nat /\ MaxStart \in Nat

VARIABLES
  file,       \* [Page -> value, NULL where there is no entry]: what config.json
              \* holds, or held before it was emptied
  intact,     \* the file is not empty
  configLock, \* the request that holds it
  memory,     \* [Page -> value]: pluginSettings and pluginAccess
  up,         \* the process runs
  pc,         \* where each request stands
  prepared,   \* [Req -> value]
  typed,      \* the form of the request held a password           (history)
  crossed,    \* pages on which two requests have overlapped       (history)
  unapplied,  \* pages saved, and then refused by ApplyConfig or    (history)
              \* not brought to it before the process ended
  torn,       \* a write has failed, or ended with the process     (history)
  puts,
  starts

diskVars == <<file, intact, configLock>>
reqVars  == <<pc, prepared, typed>>
failVars == <<unapplied, torn>>
vars == <<diskVars, memory, up, reqVars, crossed, failVars, puts, starts>>

-----------------------------------------------------------------------------

(* Mutant: an empty password is taken for the new one. *)
PrepareSettingsBlanking(p, current, input) ==
  IF input \in Accepted[p] THEN input ELSE NULL

(* prepareConfiguration: an empty password keeps the current one, a missing *)
(* field has its zero value, and ValidateConfig has the last word.          *)
PrepareSettings(p, current, input) ==
  LET new == [input EXCEPT !.secret = IF @ = Blank THEN current.secret ELSE @]
  IN  IF new \in Accepted[p] THEN new ELSE NULL

NormalizeRule(rule) ==
  [rule EXCEPT !.mode = IF @ = "" THEN "off" ELSE @]

(* Mutant: an override that says "off" is kept. *)
KeptAll(commands) == DOMAIN commands

(* commandPathSet *)
CommandPaths(p) == {path \in Path : OwnerOf[path] = p}

Kept(commands) ==
  {path \in DOMAIN commands : NormalizeRule(commands[path]).mode # "off"}

(* PrepareAccessConfiguration, and LoadAccessConfigurations alike: modes    *)
(* that are unknown and paths that are none of the plugin's are errors, and *)
(* an override that says "off" is dropped, so that the command inherits the *)
(* default rule.                                                            *)
PrepareAccess(p, input) ==
  IF /\ NormalizeRule(input.default).mode \in Mode
     /\ DOMAIN input.commands \subseteq CommandPaths(p)
     /\ \A path \in DOMAIN input.commands :
          NormalizeRule(input.commands[path]).mode \in Mode
  THEN [default |-> NormalizeRule(input.default),
        commands |-> [path \in Kept(input.commands) |->
                        NormalizeRule(input.commands[path])]]
  ELSE NULL

Prepare(page, current, input) ==
  IF page[1] = "settings" THEN PrepareSettings(page[2], current, input)
                          ELSE PrepareAccess(page[2], input)

(* What LoadConfigurations and LoadAccessConfigurations make of the entry   *)
(* for a page, or of the lack of one.                                       *)
EntryValue(page) ==
  Prepare(page, Unset(page), IF file[page] = NULL THEN Unset(page)
                                                  ELSE file[page])

(* What a process that starts now has for a page: InitConfig makes nothing  *)
(* of an empty file.                                                        *)
Loaded(page) == IF intact THEN EntryValue(page) ELSE NULL

RefusedBy(page, value) == page[1] = "settings" /\ value \in Refused[page[2]]

Input(page) ==
  IF page[1] = "settings" THEN Settings ELSE AccessInput

Saving(r) == pc[r] \in {"save", "write", "apply"}

-----------------------------------------------------------------------------

(* Mutant: what is saved is the form, not what was prepared from it. *)
PutForm(r, input) ==
  LET page == PageOf[r]
      new  == Prepare(page, memory[page], input)
  IN
  /\ up /\ pc[r] = "idle" /\ puts < MaxPut
  /\ puts' = puts + 1
  /\ pc' = [pc EXCEPT ![r] = IF new = NULL THEN "idle" ELSE "save"]
  /\ prepared' = [prepared EXCEPT ![r] = IF new = NULL THEN NULL ELSE input]
  /\ typed' = [typed EXCEPT ![r] = /\ page[1] = "settings"
                                   /\ new # NULL
                                   /\ input.secret # Blank]
  /\ crossed' = crossed \cup
       {g \in {page} : new # NULL /\ \E o \in Req \ {r} : PageOf[o] = g /\ Saving(o)}
  /\ UNCHANGED <<diskVars, memory, up, failVars, starts>>

(* A request comes in and its value is prepared under the read lock; an     *)
(* error is answered at once.                                               *)
Put(r, input) ==
  LET page == PageOf[r]
      new  == Prepare(page, memory[page], input)
  IN
  /\ up /\ pc[r] = "idle" /\ puts < MaxPut
  /\ puts' = puts + 1
  /\ pc' = [pc EXCEPT ![r] = IF new = NULL THEN "idle" ELSE "save"]
  /\ prepared' = [prepared EXCEPT ![r] = new]
  /\ typed' = [typed EXCEPT ![r] = /\ page[1] = "settings"
                                   /\ new # NULL
                                   /\ input.secret # Blank]
  /\ crossed' = crossed \cup
       {g \in {page} : new # NULL /\ \E o \in Req \ {r} : PageOf[o] = g /\ Saving(o)}
  /\ UNCHANGED <<diskVars, memory, up, failVars, starts>>

(* SavePluginSettings and SavePluginAccess: lock, read, decode, encode, and *)
(* open the file for writing, which empties it.                             *)
Truncate(r) ==
  /\ pc[r] = "save" /\ configLock = NULL /\ intact
  /\ configLock' = r
  /\ intact' = FALSE
  /\ pc' = [pc EXCEPT ![r] = "write"]
  /\ UNCHANGED <<file, memory, up, prepared, typed, crossed, failVars, puts,
                 starts>>

(* The request ends where it stands: its answer is an error or, at the end, *)
(* the success.                                                             *)
Answered(r) ==
  /\ pc' = [pc EXCEPT ![r] = "idle"]
  /\ prepared' = [prepared EXCEPT ![r] = NULL]
  /\ typed' = [typed EXCEPT ![r] = FALSE]

(* The file cannot be read, or is no JSON any more, or cannot be opened.    *)
SaveFails(r) ==
  /\ pc[r] = "save" /\ configLock = NULL
  /\ Answered(r)
  /\ UNCHANGED <<diskVars, memory, up, crossed, failVars, puts, starts>>

(* Mutant: the other pages are written as memory has them. *)
WriteFromMemory(r) ==
  /\ pc[r] = "write"
  /\ file' = [memory EXCEPT ![PageOf[r]] = prepared[r]]
  /\ intact' = TRUE
  /\ configLock' = NULL
  /\ pc' = [pc EXCEPT ![r] = "apply"]
  /\ unapplied' = unapplied \ {PageOf[r]}
  /\ UNCHANGED <<memory, up, prepared, typed, crossed, torn, puts, starts>>

Write(r) ==
  /\ pc[r] = "write"
  /\ file' = [file EXCEPT ![PageOf[r]] = prepared[r]]
  /\ intact' = TRUE
  /\ configLock' = NULL
  /\ pc' = [pc EXCEPT ![r] = "apply"]
  /\ unapplied' = unapplied \ {PageOf[r]}
  /\ UNCHANGED <<memory, up, prepared, typed, crossed, torn, puts, starts>>

(* The disk is full: nobody restores what Truncate removed. *)
WriteFails(r) ==
  /\ pc[r] = "write"
  /\ configLock' = NULL
  /\ Answered(r)
  /\ torn' = TRUE
  /\ UNCHANGED <<file, intact, memory, up, crossed, unapplied, puts, starts>>

(* ApplyConfiguration, ApplyAccessConfiguration: a plugin that refuses      *)
(* keeps its old settings, although the file has the new ones.              *)
Apply(r) ==
  LET page == PageOf[r] IN
  /\ pc[r] = "apply"
  /\ memory' = IF RefusedBy(page, prepared[r])
               THEN memory ELSE [memory EXCEPT ![page] = prepared[r]]
  /\ unapplied' = IF RefusedBy(page, prepared[r])
                  THEN unapplied \cup {page} ELSE unapplied
  /\ Answered(r)
  /\ UNCHANGED <<diskVars, up, crossed, torn, puts, starts>>

(* The process ends between any two steps; an emptied file stays empty.     *)
Crash ==
  /\ up
  /\ up' = FALSE
  /\ memory' = [page \in Page |-> NULL]
  /\ configLock' = NULL
  /\ pc' = [r \in Req |-> "idle"]
  /\ prepared' = [r \in Req |-> NULL]
  /\ typed' = [r \in Req |-> FALSE]
  /\ crossed' = {}
  /\ unapplied' = unapplied \cup {PageOf[r] : r \in {x \in Req : pc[x] = "apply"}}
  /\ torn' = (torn \/ \E r \in Req : pc[r] = "write")
  /\ UNCHANGED <<file, intact, puts, starts>>

(* main: InitConfig, LoadConfigurations and LoadAccessConfigurations; each  *)
(* ends the process when it meets an error.                                 *)
Start ==
  /\ ~up /\ starts < MaxStart
  /\ \A page \in Page : Loaded(page) # NULL /\ ~RefusedBy(page, Loaded(page))
  /\ up' = TRUE
  /\ memory' = [page \in Page |-> Loaded(page)]
  /\ unapplied' = {}
  /\ starts' = starts + 1
  /\ UNCHANGED <<diskVars, reqVars, crossed, torn, puts>>

-----------------------------------------------------------------------------

AdminInit ==
  /\ file = [page \in Page |-> NULL]
  /\ intact = TRUE
  /\ configLock = NULL
  /\ memory = [page \in Page |-> NULL]
  /\ up = FALSE
  /\ pc = [r \in Req |-> "idle"]
  /\ prepared = [r \in Req |-> NULL]
  /\ typed = [r \in Req |-> FALSE]
  /\ crossed = {}
  /\ unapplied = {} /\ torn = FALSE
  /\ puts = 0
  /\ starts = 0

(* The steps of the administration while the process lives, and its start. *)
AdminNext ==
  \/ \E r \in Req : \/ \E input \in Input(PageOf[r]) : Put(r, input)
                    \/ Truncate(r) \/ SaveFails(r)
                    \/ Write(r) \/ WriteFails(r)
                    \/ Apply(r)
  \/ Start

-----------------------------------------------------------------------------

IsValue(page, value) ==
  IF page[1] = "settings"
  THEN value \in Settings
  ELSE /\ DOMAIN value = {"default", "commands"}
       /\ value.default \in Rule
       /\ DOMAIN value.commands \subseteq CommandPaths(page[2])
       /\ \A path \in DOMAIN value.commands : value.commands[path] \in Rule

AdminTypeOK ==
  /\ \A page \in Page : /\ file[page] = NULL \/ IsValue(page, file[page])
                        /\ IF up THEN IsValue(page, memory[page])
                                 ELSE memory[page] = NULL
  /\ intact \in BOOLEAN /\ up \in BOOLEAN
  /\ configLock \in Req \cup {NULL}
  /\ pc \in [Req -> {"idle", "save", "write", "apply"}]
  /\ \A r \in Req : IF pc[r] = "idle" THEN prepared[r] = NULL
                                      ELSE IsValue(PageOf[r], prepared[r])
  /\ typed \in [Req -> BOOLEAN]
  /\ crossed \subseteq Page /\ unapplied \subseteq Page /\ torn \in BOOLEAN
  /\ puts \in 0 .. MaxPut /\ starts \in 0 .. MaxStart

Applying(page) == \E r \in Req : PageOf[r] = page /\ pc[r] = "apply"

(* While the requests for a page come one after the other and the file is    *)
(* whole, a restart would load what the process goes by: neither a change    *)
(* of another page nor a save that fails before it empties the file brings   *)
(* the two apart.  A page saved and not yet applied, and one that            *)
(* ApplyConfig refused after it was saved, are the exceptions the code       *)
(* makes; of an empty file see StartsAgain.                                  *)
SavedIsInEffect ==
  up /\ intact =>
    \A page \in Page \ crossed :
      \/ memory[page] = Loaded(page)
      \/ Applying(page) \/ page \in unapplied

(* Whatever requests leave blank, overlap or fail, and wherever the process  *)
(* ends, it starts again, with three exceptions: os.WriteFile is under way   *)
(* under the lock, it has failed or was cut short, or a page has been saved  *)
(* with settings that ApplyConfig refuses, or would have, had the process    *)
(* lived.                                                                    *)
StartsAgain ==
  \/ torn \/ \E r \in Req : pc[r] = "write" /\ configLock = r
  \/ \A page \in Page :
       /\ Loaded(page) # NULL
       /\ RefusedBy(page, Loaded(page)) => Applying(page) \/ page \in unapplied

(* A form that leaves the password blank does not change it, as long as the *)
(* requests for the page come one after the other.                          *)
SecretSurvivesBlank ==
  [][\A r \in Req :
       (/\ PageOf[r][1] = "settings" /\ PageOf[r] \notin crossed
        /\ pc[r] = "apply" /\ pc'[r] = "idle" /\ ~typed[r] /\ up')
       => memory'[PageOf[r]].secret = memory[PageOf[r]].secret]_vars

=============================================================================
