-------------------------- MODULE CommandDispatch --------------------------
(***************************************************************************)
(* From a chat message to the handler of a command: ProcessPayload of      *)
(* lib/middleware/handle.go, CanUse, ResolveCommand and                    *)
(* subCommandHandleFunc of lib/plugin/register.go, beside the              *)
(* administration of PluginConfig, which replaces the access rules at any  *)
(* moment.                                                                 *)
(*                                                                         *)
(* A text is a sequence of words, a command the path of prefixes that      *)
(* leads to it.  The words are parsed twice: before the command is         *)
(* admitted, and again, in a goroutine of its own, by the handler of a     *)
(* command that has subcommands.                                           *)
(***************************************************************************)
EXTENDS PluginConfig, Sequences

CONSTANTS
  Text,       \* the messages' texts, not empty
  At,         \* the word that mentions someone
  RoleOf,     \* [Path -> {"", "member", "admin", "owner"}]
  GroupOnly,  \* the paths with DisablePrivate
  Sent,       \* the messages that arrive
  MaxMessage  \* bound: messages

Message ==
  [text : Text, private : BOOLEAN, role : {"member", "admin", "owner"},
   persons : SUBSET Person]

ASSUME MessageAssumption ==
  Text \subseteq Seq(STRING) /\ Sent \subseteq Message /\ NULL \notin Message
(* No command is named like a mention. *)
ASSUME MentionAssumption == <<At>> \notin Path
ASSUME PathAssumption ==
  \A path \in Path : /\ path # <<>>
                     /\ \A k \in 1 .. Len(path) : SubSeq(path, 1, k) \in Path
ASSUME DispatchAssumption ==
  /\ RoleOf \in [Path -> {"", "member", "admin", "owner"}]
  /\ GroupOnly \subseteq Path
  /\ \A text \in Text : text # <<>>
ASSUME SentAssumption == MaxMessage \in Nat

VARIABLES
  message,    \* the message admitted last, NULL before the first
  judged,     \* the path the access rules were asked about
  running,    \* its goroutine has yet to call the handler
  ran,        \* the path whose handler was called, NULL when none was
  messages

dispatchVars == <<message, judged, running, ran, messages>>

(* utils.FilterAt: a mention in front is dropped unless it stands alone. *)
FilterAt(words) ==
  IF Len(words) > 1 /\ words[1] = At THEN Tail(words) ELSE words

(* The command that the first word names, none if it is no prefix. *)
Root(words) == <<words[1]>>

(* Both parsers go down the tree of subcommands word by word for as long as *)
(* a subcommand has the word for its prefix.                                *)
Walk(root, words) ==
  LET path(k) == root \o SubSeq(words, 2, k)
      known   == {k \in 1 .. Len(words) : path(k) \in Path}
  IN  path(CHOOSE k \in known : \A j \in known : j <= k)

(* What ProcessPayload keeps of the text, and the prefix it looks up there. *)
Content(m) == IF m.private THEN m.text ELSE FilterAt(m.text)

Prefix(m) ==
  LET words == Content(m) IN
  IF ~m.private /\ Len(words) > 1 /\ words[1] = At THEN Tail(words) ELSE words

(* Mutant: the mention in front is not dropped before the walk. *)
ResolvedUnfiltered(m) ==
  Walk(Root(Prefix(m)), m.text)

Resolved(m) == Walk(Root(Prefix(m)), FilterAt(Content(m)))

(* RoleRequired.CanUse *)
RoleCanUse(required, role) ==
  CASE required = "owner" -> role = "owner"
    [] required = "admin" -> role \in {"admin", "owner"}
    [] OTHER -> TRUE

(* plugin.CanUse, under the read lock: the rule of the path if it has one,  *)
(* else the plugin's default.                                               *)
CanUse(path, persons) ==
  LET access == memory[<<"access", OwnerOf[path]>>]
      rule   == IF path \in DOMAIN access.commands THEN access.commands[path]
                                                   ELSE access.default
      hit    == rule.listed \cap persons # {}
  IN  CASE rule.mode = "whitelist" -> hit
        [] rule.mode = "blacklist" -> ~hit
        [] OTHER -> TRUE

Admitted(m) ==
  LET root == Root(Prefix(m)) IN
  /\ root \in Path
  /\ RoleCanUse(RoleOf[root], m.role)
  /\ RoleCanUse(RoleOf[Resolved(m)], m.role)
  /\ m.private => {root, Resolved(m)} \cap GroupOnly = {}
  /\ CanUse(Resolved(m), m.persons)

Leaf(path) == \A p \in Path : Len(p) > Len(path) => SubSeq(p, 1, Len(path)) # path

(* The path whose handler the goroutine runs.  A command without            *)
(* subcommands has the handler of its own; any other parses the raw text    *)
(* again, gives up when the first word is no command, or when a private     *)
(* message reaches a subcommand for groups only.                            *)
Handled(m) ==
  LET words == FilterAt(m.text)
      end   == Walk(Root(words), words)
  IN  IF Leaf(Root(Prefix(m))) THEN Root(Prefix(m))
      ELSE IF Root(words) \notin Path THEN NULL
      ELSE IF /\ m.private
              /\ \E k \in 2 .. Len(end) : SubSeq(end, 1, k) \in GroupOnly
           THEN NULL
      ELSE end

(* ProcessPayload up to the start of the goroutine.  Only the look at the   *)
(* access rules meets shared state, which is why one message at a time is   *)
(* enough.  A message that is not admitted ends here, with the hook         *)
(* PermissionDenied at most.                                                *)
Process(m) ==
  /\ up /\ ~running /\ messages < MaxMessage
  /\ Admitted(m)
  /\ message' = m
  /\ judged' = Resolved(m)
  /\ running' = TRUE
  /\ ran' = NULL
  /\ messages' = messages + 1
  /\ UNCHANGED vars

(* The goroutine: messageRecoveryFunc calls the handler; an error or a      *)
(* panic only reaches the hook HandleError.                                 *)
Handle ==
  /\ running
  /\ running' = FALSE
  /\ ran' = Handled(message)
  /\ UNCHANGED <<vars, message, judged, messages>>

(* With the process its goroutines end. *)
CrashAll ==
  /\ Crash
  /\ message' = NULL
  /\ judged' = NULL
  /\ running' = FALSE
  /\ ran' = NULL
  /\ UNCHANGED messages

-----------------------------------------------------------------------------

Init ==
  /\ AdminInit
  /\ message = NULL
  /\ judged = NULL
  /\ running = FALSE
  /\ ran = NULL
  /\ messages = 0

Next ==
  \/ AdminNext /\ UNCHANGED dispatchVars
  \/ \E m \in Sent : Process(m)
  \/ Handle
  \/ CrashAll

Spec == Init /\ [][Next]_<<vars, dispatchVars>>

-----------------------------------------------------------------------------

TypeOK ==
  /\ AdminTypeOK
  /\ message \in Message \cup {NULL}
  /\ running \in BOOLEAN
  /\ IF message = NULL THEN judged = NULL /\ ~running ELSE judged \in Path
  /\ ran \in Path \cup {NULL}
  /\ running => ran = NULL
  /\ messages \in 0 .. MaxMessage

(* The two parsers agree: the handler that is called is that of the path    *)
(* the rules were asked about.  None is called only behind a second mention *)
(* and in a private message on the way to a command for groups.             *)
RunsWhatWasJudged ==
  message # NULL /\ ~running =>
    \/ ran = judged
    \/ /\ ran = NULL
       /\ \/ Len(message.text) > 1 /\ message.text[2] = At
          \/ message.private /\ \E k \in 1 .. Len(judged) :
                                  SubSeq(judged, 1, k) \in GroupOnly

(* A handler is only started when the rules that the panel shows as saved   *)
(* let the sender use the command: the command's own rule, or the plugin's  *)
(* default where the command says "off", which the panel calls inheriting.  *)
StartsFollowThePanel ==
  [][running' /\ ~running =>
       LET page   == <<"access", OwnerOf[judged']>>
           access == IF file[page] = NULL THEN Unset(page) ELSE file[page]
           own    == judged' \in DOMAIN access.commands
                     /\ access.commands[judged'].mode # "off"
           rule   == IF own THEN access.commands[judged'] ELSE access.default
           hit    == rule.listed \cap message'.persons # {}
       IN  \/ page \in crossed
           \/ \E r \in Req : PageOf[r] = page /\ pc[r] = "apply"
           \/ rule.mode = "off"
           \/ rule.mode = "whitelist" /\ hit
           \/ rule.mode = "blacklist" /\ ~hit]_<<vars, dispatchVars>>

=============================================================================
