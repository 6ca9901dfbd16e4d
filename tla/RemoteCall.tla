----------------------------- MODULE RemoteCall -----------------------------
(***************************************************************************)
(* One call of the server by the client, as text: the client names itself  *)
(* and writes a command line (run.rs, runner.rs), the shell of the remote  *)
(* host takes it apart, the server's main finds its configuration, checks  *)
(* what it was given and answers or prints an error envelope (server       *)
(* main.rs), and the client decides what the exit code and the output mean *)
(* (runner.rs, core config.rs).                                            *)
(*                                                                         *)
(* Texts are sequences of characters; a word nothing is asked about, as    *)
(* the name of a command, is one character.                                *)
(***************************************************************************)
EXTENDS Naturals, SequencesExt

CONSTANTS
    Letters,    \* alphanumeric characters
    Others,     \* characters neither alphanumeric nor one of "-", "_", "."
    NameSize,   \* bound: characters of a name the user or the system gives
    PathSize    \* bound: characters of a path the server tells

ASSUME RemoteCallAssumption ==
    /\ NameSize \in Nat /\ PathSize \in Nat
    /\ Letters # {} /\ Letters \cap {"-", "_", "."} = {}

VARIABLES call,     \* the call of a command, by both its ends
          copy      \* the writing of a remote file

callVars == <<call, copy>>

Separators == {"-", "_"}
Alphanumeric == Letters \cup {"client"}   \* with a word of letters
Characters == Letters \cup Separators \cup {"."} \cup Others
Texts(n) == UNION {[1..k -> Characters] : k \in 0..n}

None == "none"

(***************************************************************************)
(* Names.                                                                  *)
(***************************************************************************)
\* Nickname::new.
NicknameSound(text) == text # <<>> /\ ToSet(text) \subseteq Alphanumeric \cup Separators

\* RunId::new.
RunIdSound(text) == text # <<>> /\ ToSet(text) \subseteq Alphanumeric \cup Separators \cup {"."}

\* RunId::generate.
SomeRunId == <<CHOOSE c \in Letters : TRUE>>

Client == <<"client">>

\* No name could be had.
Unknown == <<None>>

Replaced(text) ==
    [i \in DOMAIN text |-> IF text[i] \in Letters \cup Separators THEN text[i] ELSE "-"]

\* Of a run of separators the first is kept.
Deduplicated(text) ==
    LET kept == {i \in DOMAIN text : text[i] \in Separators /\ i > 1 => text[i - 1] \notin Separators}
    IN [k \in 1..Cardinality(kept) |->
            text[CHOOSE i \in kept : Cardinality({j \in kept : j <= i}) = k]]

Trimmed(text) ==
    LET inner == {i \in DOMAIN text : text[i] \notin Separators} IN
    IF inner = {} THEN <<>> ELSE SubSeq(text, Min(inner), Max(inner))

\* Mutant: separators at the ends are kept.
SanitizeUntrimmed(raw) ==
    LET name == Deduplicated(Replaced(raw)) IN IF name = <<>> THEN Client ELSE name

\* sanitize_nickname.
Sanitize(raw) ==
    LET name == Trimmed(Deduplicated(Replaced(raw))) IN IF name = <<>> THEN Client ELSE name

\* auto_nickname_from: the user's and the host's names, either of which may be
\* unknown, as a host name of blanks is (hostname_from_bytes).
AutoNickname(user, host) ==
    LET raw == CASE user # Unknown /\ host # Unknown -> user \o <<"-">> \o host
                 [] user = Unknown /\ host # Unknown -> host
                 [] user # Unknown /\ host = Unknown -> user
                 [] OTHER -> Client
        name == Sanitize(raw)
    IN IF NicknameSound(name) THEN name ELSE Client

(***************************************************************************)
(* Command lines.                                                          *)
(***************************************************************************)
\* shell_escape.
ShellEscape(text) ==
    LET Escaped(c) == IF c = "'" THEN <<"'", "\\", "'", "'">> ELSE <<c>>
    IN <<"'">> \o FlattenSeq([i \in DOMAIN text |-> Escaped(text[i])]) \o <<"'">>

\* What separates the words of a line.
Blank == " "

\* The POSIX shell, as far as blanks, single quotes and backslashes go.
ShellStart == [words |-> <<>>, word |-> <<>>, open |-> FALSE, mode |-> "plain"]

ShellReads(state, c) ==
    CASE state.mode = "quoted" /\ c = "'" -> [state EXCEPT !.mode = "plain"]
      [] state.mode = "quoted" /\ c # "'" -> [state EXCEPT !.word = Append(@, c)]
      [] state.mode = "escaped" -> [state EXCEPT !.word = Append(@, c), !.mode = "plain"]
      [] state.mode = "plain" /\ c = "'" -> [state EXCEPT !.mode = "quoted", !.open = TRUE]
      [] state.mode = "plain" /\ c = "\\" -> [state EXCEPT !.mode = "escaped", !.open = TRUE]
      [] state.mode = "plain" /\ c = Blank ->
            IF state.open
            THEN [state EXCEPT !.words = Append(@, state.word), !.word = <<>>, !.open = FALSE]
            ELSE state
      [] OTHER -> [state EXCEPT !.word = Append(@, c), !.open = TRUE]

\* The words of a line; none if a quote is left open.
ShellWords(line) ==
    LET end == FoldLeft(ShellReads, ShellStart, line) IN
    IF end.mode # "plain" THEN <<>>
    ELSE IF end.open THEN Append(end.words, end.word) ELSE end.words

\* server_cmd_raw: the server command as it is, every argument escaped.
CommandLine(args) ==
    <<"purgery-server">> \o FlattenSeq([i \in DOMAIN args |-> <<Blank>> \o ShellEscape(args[i])])

(***************************************************************************)
(* Commands.                                                               *)
(***************************************************************************)
\* is_protocol_command.
ProtocolCommands == {"begin-run", "prepare-run", "finish-run", "heartbeat-run", "run-state",
                     "status", "process-run"}

\* What a client asks of a server, and the commands the operator gives.
Asked == ProtocolCommands \cup {"version", "gc"}
Operated == {"process-once", "check", "bootstrap"}
Commands == Asked \cup Operated

\* The answers with a version the client looks at before it takes them:
\* parse_begin_response, parse_prepare_response, parse_run_state_response,
\* parse_process_run_response, check_server_version, and a status.
ProtocolAnswers == {"begin-run", "prepare-run", "run-state", "process-run", "version"}
VersionedAnswers == ProtocolAnswers \cup {"status"}

Arguments(command, name) ==
    IF command \in ProtocolCommands
    THEN <<<<command>>, <<"--nickname">>, name, <<"--run-id">>, SomeRunId>>
    ELSE <<<<command>>>>

(***************************************************************************)
(* What arrives at the client: how ssh ended, and the standard output.     *)
(***************************************************************************)
NoOutput == [form |-> "empty", command |-> None, code |-> None, protocol |-> FALSE,
             compatible |-> FALSE]

Failures == {"server_config_invalid", "invalid_request", "run_plan_invalid", "server_error"}

\* exit_with_protocol_error; the message is never empty.
Envelope(server, command, code) ==
    [form |-> "envelope", command |-> command, code |-> code,
     protocol |-> server.protocol, compatible |-> server.compatible]

Response(server, command) ==
    [form |-> IF command \in VersionedAnswers THEN "response" ELSE "empty",
     command |-> command, code |-> None,
     protocol |-> server.protocol, compatible |-> server.compatible]

\* parse_protocol_error_response.
EnvelopeAccepted(output, command) ==
    /\ output.form = "envelope" /\ output.protocol /\ output.compatible
    /\ output.command = command

ResponseAccepted(output, command) ==
    /\ command \in VersionedAnswers => output.form = "response" /\ output.compatible
    /\ command \in ProtocolAnswers => output.protocol

\* server_cmd_raw: the classes of ssh's exits.
ExitClass(exit) ==
    CASE exit = "0" -> "success"
      [] exit = "255" -> "transport"
      [] exit = "signal" -> "signaled"
      [] OTHER -> "remote_failure"

\* into_protocol_result, and the parsing of what it returns.
Outcome(exit, output, command) ==
    CASE ExitClass(exit) = "success" ->
            IF ResponseAccepted(output, command) THEN "ok" ELSE "bad_response"
      [] ExitClass(exit) = "remote_failure" ->
            IF EnvelopeAccepted(output, command) THEN output.code ELSE "unclear"
      [] OTHER -> ExitClass(exit)

----------------------------------------------------------------------------
(* The call *)

Idle == [pc |-> "idle", command |-> "version", name |-> <<>>, chosen |-> FALSE,
         sent |-> <<>>, heard |-> <<>>,
         server |-> [protocol |-> TRUE, compatible |-> TRUE],
         done |-> FALSE, refusal |-> None, exit |-> None, output |-> NoOutput, outcome |-> None]

CallInit == call = Idle

CopyInit == copy = [told |-> <<>>, written |-> <<>>]

CallGoes(pc) == call' = [call EXCEPT !.pc = pc]

\* choose_nickname: --nickname as it is, or a name made up.
ChooseNickname ==
    /\ call.pc = "idle"
    /\ \E command \in Asked :
         \/ \E text \in Texts(NameSize) :
              call' = IF NicknameSound(text)
                      THEN [call EXCEPT !.pc = "named", !.command = command, !.name = text]
                      ELSE [call EXCEPT !.pc = "over", !.outcome = "refused_locally"]
         \/ \E user, host \in Texts(NameSize - 1) \cup {Unknown} :
              /\ host # <<>>
              /\ call' = [call EXCEPT !.pc = "named", !.command = command, !.chosen = TRUE,
                                      !.name = AutoNickname(user, host)]
    /\ UNCHANGED copy

\* server_cmd, to a server of some version.
Call ==
    /\ call.pc = "named"
    /\ \E server \in [protocol : BOOLEAN, compatible : BOOLEAN] :
         call' = [call EXCEPT !.pc = "sent", !.server = server,
                              !.sent = Arguments(call.command, call.name)]
    /\ UNCHANGED copy

\* The operator gives a command on the server itself.
Operate ==
    /\ call.pc = "idle"
    /\ \E command \in Operated :
         call' = [call EXCEPT !.pc = "parsed", !.command = command,
                              !.sent = <<<<command>>>>, !.heard = <<<<command>>>>]
    /\ UNCHANGED copy

Replies(exit, output) ==
    call' = [call EXCEPT !.pc = "exited", !.exit = exit, !.output = output]

Refuses(exit, output, code) ==
    call' = [call EXCEPT !.pc = "exited", !.exit = exit, !.output = output, !.refusal = code]

\* The remote shell: the program may not be there.
Shell ==
    /\ call.pc = "sent"
    /\ \/ LET words == ShellWords(CommandLine(call.sent)) IN
          call' = [call EXCEPT !.pc = "started", !.heard = IF words = <<>> THEN <<>> ELSE Tail(words)]
       \/ Replies("127", NoOutput)
    /\ UNCHANGED copy

\* Cli::parse: a value that begins with a hyphen, and is more than that, is
\* taken for an option.
Parse ==
    /\ call.pc = "started"
    /\ LET args == call.heard IN
       IF /\ Len(args) = Len(call.sent)
          /\ \A i \in DOMAIN args : i \in {3, 5} =>
                args[i] \in {<<>>, <<"-">>} \/ Head(args[i]) # "-"
       THEN CallGoes("parsed")
       ELSE Replies("2", NoOutput)
    /\ UNCHANGED copy

\* Where find_config looks: the first file that is there; a path given in
\* PURGERY_SERVER_CONFIG_PATH stands for whatever is at it.
Places == <<"variable", "xdg", "home", "etc">>
Contents == {"absent", "garbled", "sound"}

FindConfig(files, given) ==
    LET found == {i \in DOMAIN Places : files[Places[i]] # "absent"} IN
    IF given THEN files["variable"]
    ELSE IF found \ {1} = {} THEN "absent" ELSE files[Places[Min(found \ {1})]]

\* Mutant: what goes wrong before the command is run ends main.
ConfigFailureBare == Refuses("1", NoOutput, "server_config_invalid")

\* exit_with_protocol_error, for the commands of the protocol.
ConfigFailure ==
    Refuses("1", IF call.command \in ProtocolCommands
                 THEN Envelope(call.server, call.command, "server_config_invalid")
                 ELSE NoOutput, "server_config_invalid")

\* load_config_and_logging and init_logging; version needs neither.
LoadConfig ==
    /\ call.pc = "parsed"
    /\ \/ call.command = "version" /\ CallGoes("run")
       \/ /\ call.command # "version"
          /\ \E files \in [ToSet(Places) -> Contents], given, logging \in BOOLEAN :
               IF FindConfig(files, given) = "sound" /\ logging THEN CallGoes("loaded")
               ELSE ConfigFailure
    /\ UNCHANGED copy

\* validate_nickname_and_run_id.
Validate ==
    /\ call.pc = "loaded"
    /\ IF call.command \in ProtocolCommands
          /\ ~(NicknameSound(call.heard[3]) /\ RunIdSound(call.heard[5]))
       THEN Refuses("1", Envelope(call.server, call.command, "invalid_request"), "invalid_request")
       ELSE CallGoes("run")
    /\ UNCHANGED copy

\* protocol_error_code.
ErrorCode(command) == IF command = "prepare-run" THEN "run_plan_invalid" ELSE "server_error"

\* run_protocol: the command's own work, or its refusal, checks included.
Run ==
    /\ call.pc = "run"
    /\ \/ call' = [call EXCEPT !.pc = "exited", !.exit = "0", !.done = TRUE,
                               !.output = Response(call.server, call.command)]
       \/ /\ call.command # "version"
          /\ Refuses("1", IF call.command \in ProtocolCommands
                          THEN Envelope(call.server, call.command, ErrorCode(call.command))
                          ELSE NoOutput, ErrorCode(call.command))
    /\ UNCHANGED copy

\* The server process is killed, having done its work or not.
Dies ==
    /\ call.pc \in {"started", "parsed", "loaded", "run"} /\ call.command \in Asked
    /\ \E done \in BOOLEAN :
         /\ done => call.pc = "run"
         /\ call' = [call EXCEPT !.pc = "exited", !.exit = "255", !.done = done]
    /\ UNCHANGED copy

\* The connection breaks, the local ssh is killed, or the remote shell has
\* printed something of its own.
Disturbed ==
    /\ call.pc = "exited" /\ call.command \in Asked
    /\ \/ call' = [call EXCEPT !.pc = "arrived", !.exit = "255", !.output = NoOutput]
       \/ call' = [call EXCEPT !.pc = "arrived", !.exit = "signal"]
       \/ call' = [call EXCEPT !.pc = "arrived", !.output = [NoOutput EXCEPT !.form = "noise"]]
    /\ UNCHANGED copy

Arrives ==
    /\ call.pc = "exited" /\ call.command \in Asked
    /\ CallGoes("arrived")
    /\ UNCHANGED copy

Classify ==
    /\ call.pc = "arrived"
    /\ call' = [call EXCEPT !.pc = "over",
                            !.outcome = Outcome(call.exit, call.output, call.command)]
    /\ UNCHANGED copy

\* write_remote_file: "cat > PATH" with the path of the server's begin-run.
WriteRemoteFile ==
    /\ call = Idle /\ copy.told = <<>>
    /\ \E path \in {<<"/">> \o text : text \in Texts(PathSize)} :
         LET words == ShellWords(<<"cat", Blank, ">", Blank>> \o ShellEscape(path)) IN
         copy' = [told |-> path, written |-> IF Len(words) = 3 THEN words[3] ELSE <<>>]
    /\ UNCHANGED call

CallNext ==
    \/ copy.told = <<>> /\ (ChooseNickname \/ Operate)
    \/ Call \/ Shell \/ Parse \/ LoadConfig \/ Validate \/ Run
    \/ Dies \/ Disturbed \/ Arrives \/ Classify
    \/ WriteRemoteFile

----------------------------------------------------------------------------
(* Properties *)

\* The server hears the words the client meant and finds nothing wrong with
\* the names, whatever they are made from, and a file is written where the
\* server said (sanitize_nickname, Nickname::new, shell_escape).  One gap is
\* left out: a nickname given as --nickname=-x is sound to the client and an
\* option to the server's parser.
CallsUnderstood ==
    /\ call.heard # <<>> => call.heard = call.sent
    /\ call.refusal # "invalid_request"
    /\ call.exit = "2" => ~call.chosen /\ Head(call.name) = "-"
    /\ copy.written = copy.told

\* What the client takes from a call is so.  "ok": the command was carried out,
\* and by a server of this version if the answer has one.  An error with a
\* code: the command was not carried out, for that reason.  And the other way
\* round, a refusal of a protocol command, at whatever point of main it comes,
\* arrives with its code unless the servers differ or the transport was
\* disturbed (exit_with_protocol_error, into_protocol_result).
OutcomesAreTrue ==
    call.pc = "over" =>
        /\ call.outcome = "ok" =>
            /\ call.done
            /\ call.command \in VersionedAnswers => call.server.compatible
            /\ call.command \in ProtocolAnswers => call.server.protocol
        /\ call.outcome \in Failures => ~call.done /\ call.refusal = call.outcome
        /\ /\ call.refusal # None /\ call.command \in ProtocolCommands
           /\ call.server.protocol /\ call.server.compatible
           /\ ExitClass(call.exit) = "remote_failure" /\ call.output.form # "noise"
           => call.outcome = call.refusal

\* A name the client goes on with, chosen by it or given by the user.
GoodName(name, chosen) ==
    /\ name \in Seq(Alphanumeric \cup Separators) /\ name # <<>>
    /\ chosen => Head(name) \notin Separators

\* What makes CallsUnderstood inductive, beside CallInv: the names are good and
\* the words are those of the command from the time they are sent, and the
\* server goes on with no other words than these.
WordsInv ==
    /\ call.pc \in {"idle", "named"} => call.sent = <<>> /\ call.heard = <<>>
    /\ call.pc = "idle" => call.chosen = FALSE
    /\ call.pc = "named" => call.command \in Asked /\ GoodName(call.name, call.chosen)
    /\ call.pc \in {"sent", "started", "parsed", "loaded"} =>
            \/ /\ call.command \in Asked /\ GoodName(call.name, call.chosen)
               /\ call.sent = Arguments(call.command, call.name)
            \/ call.command \in Operated /\ call.sent = <<<<call.command>>>>
    /\ call.pc \in {"started", "parsed", "loaded"} => call.heard = call.sent
    /\ CallsUnderstood

\* What makes OutcomesAreTrue inductive: an exit of 0 and an output that is no
\* noise come from the server, which has either done the work or refused it,
\* and has told a client of the protocol which.
CallInv ==
    /\ DOMAIN call = DOMAIN Idle
    /\ call.command \in Commands
    /\ call.server \in [protocol : BOOLEAN, compatible : BOOLEAN]
    /\ call.pc \notin {"exited", "arrived", "over"} =>
            ~call.done /\ call.refusal = None /\ call.exit = None /\ call.output = NoOutput
    /\ call.refusal \in Failures \cup {None}
    /\ call.refusal # None => ~call.done
    /\ call.exit = "0" => call.done
    /\ \/ call.output.form \in {"empty", "noise"}
       \/ call.output = Response(call.server, call.command) /\ call.done
       \/ call.output = Envelope(call.server, call.command, call.refusal) /\ call.refusal # None
    /\ /\ call.refusal # None /\ call.command \in ProtocolCommands
       /\ ExitClass(call.exit) = "remote_failure"
       => call.output.form \in {"envelope", "noise"}
    /\ call.pc = "over" =>
            \/ call.outcome = Outcome(call.exit, call.output, call.command)
            \/ call.outcome \in {None, "refused_locally"} /\ call.refusal = None
=============================================================================
