---------------------------- MODULE ControlSession ----------------------------
(***************************************************************************)
(* The sessions of the control console (controld.cpp): what clients send   *)
(* arrives in pieces, a session collects them in cmd_, and what it has     *)
(* when a newline is anywhere in it is one command.                        *)
(*                                                                         *)
(* Text is a sequence of symbols: a symbol is a word of a command, a       *)
(* digit, a space or a line ending.  Words that meet without a space are   *)
(* one word of the command, as "TCP" and "add" in "TCPadd".  A handler of  *)
(* a session touches what the sessions share once, under a list's lock, so *)
(* that it is one step though two threads run handlers.  Replies are known *)
(* by their kind.  sent, parsed and ahead are history variables.           *)
(***************************************************************************)
EXTENDS RulesList, Filter

CONSTANTS
  Client,
  Lines,      \* lines a client may send, with their endings
  RuleText,   \* the rule that a sequence of words is: a function to Key
  FirstLists, \* main_collect's lists at the start
  MaxLines    \* bound: lines sent

Type == {"TCP", "UDP", "ICMP"}
Digit == [d \in {"0", "1", "2"} |-> CASE d = "0" -> 0 [] d = "1" -> 1 [] d = "2" -> 2]
Ending == {"CR", "NL"}
Symbol == UNION {Range(l) : l \in Lines}

\* A line ends at its newline.  None holds a NUL, which would hide the rest
\* of a read.
ASSUME LinesAssumption ==
  \A l \in Lines :
    /\ l \in Seq(STRING) /\ l # <<>>
    /\ \A i \in DOMAIN l : l[i] = "NL" <=> i = Len(l)
ASSUME RuleTextAssumption == \A t \in DOMAIN RuleText : RuleText[t] \in Key
ASSUME FirstListsAssumption == FirstLists \in [Type -> Seq(Rule)]
ASSUME MaxLinesAssumption == MaxLines \in Nat

VARIABLES
  state,   \* a session: not yet there, reading, or gone
  wire,    \* what a client has sent and no read has taken
  hung,    \* the client has closed its end
  cmd,     \* cmd_
  lists,   \* collect_
  raised,  \* raise(1) was called
  sent,    \* lines, by client
  parsed,  \* commands, by session: the text and the kind of reply
  ahead    \* the client sent a line before the one before it was a command

vars == <<state, wire, hung, cmd, lists, raised, sent, parsed, ahead>>

Reply == {"none", "help", "rules", "error", "closed"}

TypeOK ==
  /\ state \in [Client -> {"off", "open", "closed"}]
  /\ wire \in [Client -> Seq(Symbol)] /\ cmd \in [Client -> Seq(Symbol)]
  /\ hung \in [Client -> BOOLEAN] /\ ahead \in [Client -> BOOLEAN]
  /\ DOMAIN lists = Type
  /\ \A t \in Type : lists[t] \in Seq(Rule)
  /\ raised \in BOOLEAN
  /\ sent \in [Client -> Seq(Lines)]
  /\ parsed \in [Client -> Seq([text : Seq(Symbol), reply : Reply])]

Init ==
  /\ state = [c \in Client |-> "off"]
  /\ wire = [c \in Client |-> <<>>] /\ cmd = [c \in Client |-> <<>>]
  /\ hung = [c \in Client |-> FALSE]
  /\ lists = FirstLists
  /\ raised = FALSE
  /\ sent = [c \in Client |-> <<>>] /\ parsed = [c \in Client |-> <<>>]
  /\ ahead = [c \in Client |-> FALSE]

-----------------------------------------------------------------------------
(* Text.                                                                   *)

\* A text without some of its symbols, wherever they are.
Without(symbols, text) ==
  Kept(Len(text), text, [i \in DOMAIN text |-> text[i] \notin symbols])

\* Faulty variant: only the newline is removed.
CleanedOfNL(text) == Without({"NL"}, text)

\* bad_symbols_ are removed.
Cleaned(text) == Without(Ending, text)

\* tokenize: words are what is between spaces.
Words(text) ==
  LET Space(i) == i \notin DOMAIN text \/ text[i] = "SP"
      starts == {i \in DOMAIN text : ~Space(i) /\ Space(i - 1)}
      WordAt(i) == SubSeq(text, i, Min({j \in i .. Len(text) : Space(j + 1)}))
      Nth(k) == CHOOSE i \in starts : Cardinality({j \in starts : j <= i}) = k
  IN  [k \in 1 .. Cardinality(starts) |-> WordAt(Nth(k))]

\* tokenize throws at a backslash before what it cannot escape, here a q.
\* The escapes it knows (of a backslash, a quote, a space and n) and quotes
\* are not among the symbols.
Refused(text) == "\\q" \in Range(text)

\* std::atoi: the digits a word begins with, 0 if there are none.
AToI(word) ==
  LET n == CHOOSE i \in 0 .. Len(word) :
             /\ \A j \in 1 .. i : word[j] \in DOMAIN Digit
             /\ i < Len(word) => word[i + 1] \notin DOMAIN Digit
      num[i \in 0 .. n] == IF i = 0 THEN 0 ELSE 10 * num[i - 1] + Digit[word[i]]
  IN  num[n]

-----------------------------------------------------------------------------
(* parse: the command's effect on the lists, its reply, and what else it   *)
(* does.  An effect of its own for each return of the function.            *)

Effect(new, reply) == [lists |-> new, reply |-> reply, raises |-> FALSE]
Nothing(old) == Effect(old, "none")
Error(old) == Effect(old, "error")

RuleIn(words, from) == SubSeq(words, from, Len(words))
IsRule(words) == words \in DOMAIN RuleText

\* Faulty variant: the rule's constructor is not run.
AddRaw(old, t, w) ==
  IF IsRule(RuleIn(w, 4))
  THEN Effect([old EXCEPT ![t] = Append(@, [key |-> RuleText[RuleIn(w, 4)]])], "none")
  ELSE Error(old)

\* Four words are no rule to add, and no error either.
Add(old, t, w) ==
  IF IsRule(RuleIn(w, 4))
  THEN Effect([old EXCEPT ![t] = AppendRule(@, RuleText[RuleIn(w, 4)])], "none")
  ELSE Error(old)

Insert(old, t, w) ==
  IF IsRule(RuleIn(w, 5)) /\ ValidNum(old[t], AToI(w[4]))
  THEN Effect([old EXCEPT ![t] = InsertRule(@, AToI(w[4]), RuleText[RuleIn(w, 5)])], "none")
  ELSE Error(old)

Del(old, t, w) ==
  IF ValidNum(old[t], AToI(w[4]))
  THEN Effect([old EXCEPT ![t] = DelRule(@, AToI(w[4]))], "none")
  ELSE Error(old)

RuleCommand(old, w) ==
  LET verb == w[1]
      t == IF \E u \in Type : w[3] = <<u>> THEN w[3][1] ELSE "none"
  IN  CASE t = "none"                            -> Error(old)
        [] t # "none" /\ verb = <<"add">> /\ Len(w) > 4    -> Add(old, t, w)
        [] t # "none" /\ verb = <<"insert">> /\ Len(w) > 4 -> Insert(old, t, w)
        [] t # "none" /\ verb = <<"del">> /\ Len(w) = 4    -> Del(old, t, w)
        [] OTHER                                 -> Nothing(old)

Parse(old, text) ==
  LET w == Words(text)
  IN  CASE Refused(text) \/ w = << <<"exit">> >>           -> Effect(old, "closed")
        [] ~Refused(text) /\ w = <<>>                      -> Nothing(old)
        [] ~Refused(text) /\ w \in {<< <<"help">> >>, << <<"?">> >>} -> Effect(old, "help")
        [] ~Refused(text) /\ w = << <<"show">>, <<"rules">> >> -> Effect(old, "rules")
        [] ~Refused(text) /\ w = << <<"reload">>, <<"rules">> >> ->
             [Nothing(old) EXCEPT !.raises = TRUE]
        [] ~Refused(text) /\ Len(w) >= 4 /\ w[2] = <<"rule">>  -> RuleCommand(old, w)
        [] OTHER                                           -> Error(old)

-----------------------------------------------------------------------------
(* Clients.                                                                *)

Connect(c) ==
  /\ state[c] = "off"
  /\ state' = [state EXCEPT ![c] = "open"]
  /\ UNCHANGED <<wire, hung, cmd, lists, raised, sent, parsed, ahead>>

\* A line, or several of them if nobody waits for the first to be done.
Send(c, line) ==
  /\ state[c] = "open" /\ ~hung[c]
  /\ SumFunction([d \in Client |-> Len(sent[d])]) < MaxLines
  /\ wire' = [wire EXCEPT ![c] = @ \o line]
  /\ sent' = [sent EXCEPT ![c] = Append(@, line)]
  /\ ahead' = [ahead EXCEPT ![c] = @ \/ Len(parsed[c]) < Len(sent[c])]
  /\ UNCHANGED <<state, hung, cmd, lists, raised, parsed>>

Hangup(c) ==
  /\ state[c] = "open" /\ ~hung[c]
  /\ hung' = [hung EXCEPT ![c] = TRUE]
  /\ UNCHANGED <<state, wire, cmd, lists, raised, sent, parsed, ahead>>

-----------------------------------------------------------------------------
(* The handler of async_read_some.                                         *)

\* No newline yet: the next read.
Collect(c, text) ==
  /\ cmd' = [cmd EXCEPT ![c] = text]
  /\ UNCHANGED <<state, lists, raised, parsed>>

\* Faulty variant: cmd_ keeps the command.
ExecuteKeeps(c, text) ==
  \E done \in {Parse(lists, Cleaned(text))} :
      /\ lists' = done.lists
      /\ raised' = (raised \/ done.raises)
      /\ parsed' = [parsed EXCEPT ![c] = Append(@, [text |-> Cleaned(text), reply |-> done.reply])]
      /\ cmd' = [cmd EXCEPT ![c] = Cleaned(text)]
      /\ state' = IF done.reply = "closed" THEN [state EXCEPT ![c] = "closed"] ELSE state

Execute(c, text) ==
  \E done \in {Parse(lists, Cleaned(text))} :
      /\ lists' = done.lists
      /\ raised' = (raised \/ done.raises)
      /\ parsed' = [parsed EXCEPT ![c] = Append(@, [text |-> Cleaned(text), reply |-> done.reply])]
      /\ cmd' = [cmd EXCEPT ![c] = <<>>]
      /\ state' = IF done.reply = "closed" THEN [state EXCEPT ![c] = "closed"] ELSE state

\* Faulty variant: what a read brings is a command.
ReadEach(c, n) ==
  \E text \in {cmd[c] \o SubSeq(wire[c], 1, n)} :
      /\ state[c] = "open"
      /\ wire' = [wire EXCEPT ![c] = SubSeq(@, n + 1, Len(@))]
      /\ Execute(c, text)
      /\ UNCHANGED <<hung, sent, ahead>>

\* A read takes some of what has come.
Read(c, n) ==
  \E text \in {cmd[c] \o SubSeq(wire[c], 1, n)} :
      /\ state[c] = "open"
      /\ wire' = [wire EXCEPT ![c] = SubSeq(@, n + 1, Len(@))]
      /\ IF "NL" \in Range(text) THEN Execute(c, text) ELSE Collect(c, text)
      /\ UNCHANGED <<hung, sent, ahead>>

\* The end of file: the handler returns, and the session with it.
ReadEnd(c) ==
  /\ state[c] = "open" /\ hung[c] /\ wire[c] = <<>>
  /\ state' = [state EXCEPT ![c] = "closed"]
  /\ UNCHANGED <<wire, hung, cmd, lists, raised, sent, parsed, ahead>>

Handler(c) == ReadEnd(c) \/ \E n \in 1 .. Len(wire[c]) : Read(c, n)

-----------------------------------------------------------------------------
Next ==
  \E c \in Client :
    \/ Connect(c) \/ Hangup(c) \/ Handler(c)
    \/ \E line \in Lines : Send(c, line)

Spec == Init /\ [][Next]_vars

-----------------------------------------------------------------------------
(* Properties.                                                             *)

Said(text) == Without({"CR", "NL"}, text)

\* What is parsed, collected and on the way is what the client sent, in its
\* order, however the reads cut it (controld.cpp:29-51).
NothingLost ==
  \A c \in Client :
    FlattenSeq([i \in DOMAIN parsed[c] |-> parsed[c][i].text]) \o Said(cmd[c] \o wire[c])
      = Said(FlattenSeq(sent[c]))

\* A client that sends a line when the one before it has been a command has
\* each line parsed alone.
Framed ==
  \A c \in Client : ~ahead[c] =>
    \A i \in DOMAIN parsed[c] : parsed[c][i].text = Said(sent[c][i])

\* The lists change by a command only, and if its client waits for commands,
\* as the line that it sent last says (controld.cpp:34-42).
WaitersAreObeyed ==
  [][lists' # lists =>
       \E c \in Client :
         /\ parsed'[c] # parsed[c]
         /\ ~ahead[c] => lists' = Parse(lists, Said(Last(sent[c]))).lists]_vars

\* controld.hpp:39-40: what was read is collected in cmd_ until the end of a
\* command, \n, comes; so each command that changes a list is a line that a
\* client sent.
EditsWereSent ==
  [][lists' # lists =>
       \E c \in Client : \E i \in DOMAIN sent[c] :
         lists' = Parse(lists, Said(sent[c][i])).lists]_vars
=============================================================================
