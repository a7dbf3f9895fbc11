---------------------------- MODULE CommandLine ----------------------------
(***************************************************************************)
(* The command line of cmd/hdfc2ff/main.go: splitCommand finds the command *)
(* word wherever it stands, the flag package reads the rest, and realMain  *)
(* chooses what to do.  An argument is a record of its kind and its name:  *)
(*   word      no dash in front, a command or a value                      *)
(*   flag      a flag with a dash and no value attached                    *)
(*   attached  a flag written -name=value                                  *)
(*   stop      the two dashes                                              *)
(***************************************************************************)
EXTENDS Integers, SequencesExt

Word(n)     == [kind |-> "word", name |-> n]
Flag(n)     == [kind |-> "flag", name |-> n]
Attached(n) == [kind |-> "attached", name |-> n]
Stop        == [kind |-> "stop", name |-> "--"]

(* The flags that realMain declares. *)
Switches  == {"once", "dry-run", "verbose"}
TextFlags == {"env", "limit", "save", "status", "uid", "lookback", "max-age", "from"}

(* With a plausible bug: a flag was declared and not listed here. *)
ValueFlagsMissing == TextFlags \ {"from"}

(* The flags that splitCommand takes to consume the argument after them. *)
ValueFlags == {"env", "limit", "save", "status", "uid", "lookback", "max-age", "from"}

(* One turn of splitCommand: what comes next is an argument, the value of   *)
(* the flag before, or, after the two dashes, which are dropped, the rest.  *)
SplitNext(s, a) ==
    CASE s.next = "value" -> [s EXCEPT !.rest = Append(@, a), !.next = "argument"]
      [] s.next = "rest"  -> [s EXCEPT !.rest = Append(@, a)]
      [] s.next = "argument" /\ a.kind = "stop" -> [s EXCEPT !.next = "rest"]
      [] s.next = "argument" /\ a.kind = "word" /\ s.cmd = "" -> [s EXCEPT !.cmd = a.name]
      [] OTHER -> [s EXCEPT !.rest = Append(@, a),
                            !.next = IF a.kind = "flag" /\ a.name \in ValueFlags
                                     THEN "value" ELSE "argument"]

(* The command word, "" if there is none, and the arguments that remain.    *)
SplitCommand(args) ==
    LET split[i \in 0 .. Len(args)] ==
            IF i = 0 THEN [cmd |-> "", rest |-> <<>>, next |-> "argument"]
            ELSE SplitNext(split[i - 1], args[i])
    IN  split[Len(args)]

(* The flag package has its own view of what is a value, by the flags it    *)
(* knows.  It ends at the two dashes and at anything that is no flag.  A    *)
(* switch with a value attached is left out.                                *)
ParseNext(s, a) ==
    CASE s.next = "value" -> [s EXCEPT !.next = "flag"]
      [] s.next = "flag" /\ a.kind = "flag" /\ a.name \in Switches ->
             [s EXCEPT !.given = @ \cup {a.name}]
      [] s.next = "flag" /\ a.kind = "flag" /\ a.name \in TextFlags -> [s EXCEPT !.next = "value"]
      [] s.next = "flag" /\ a.kind = "attached" /\ a.name \in TextFlags -> s
      [] s.next = "flag" /\ a.kind = "stop" -> [s EXCEPT !.next = "nothing"]
      [] OTHER -> [s EXCEPT !.next = "wrong"]

(* The switches given, and how the parse ended.                             *)
Parsed(rest) ==
    LET parsed[i \in 0 .. Len(rest)] ==
            IF i = 0 THEN [given |-> {}, next |-> "flag"]
            ELSE ParseNext(parsed[i - 1], rest[i])
    IN  parsed[Len(rest)]

(* No flag without its value, and nothing left for realMain to complain of. *)
Accepted(flags) == flags.next \in {"flag", "nothing"}

(* What realMain does: a poll loop, one poll, some other command, or a      *)
(* complaint.                                                               *)
OtherCommands == {"status", "healthcheck", "dump", "import", "verify", "replay", "help"}

Launch(args) ==
    LET split == SplitCommand(args)
        flags == Parsed(split.rest)
        cmd   == IF split.cmd = "" THEN "run" ELSE split.cmd
    IN  CASE ~Accepted(flags) -> "usage"
          [] Accepted(flags) /\ cmd = "run" -> IF "once" \in flags.given THEN "once" ELSE "run"
          [] Accepted(flags) /\ cmd = "once" -> "once"
          [] Accepted(flags) /\ cmd \in OtherCommands -> "other"
          [] OTHER -> "usage"

(* Does the command line ask for a dry run. *)
DryRun(args) == "dry-run" \in Parsed(SplitCommand(args).rest).given

----------------------------------------------------------------------------
Arguments == [kind: {"word", "flag", "attached", "stop"}, name: STRING]

(* What the user takes for one option: a switch, or a flag with its value,  *)
(* attached or behind it, whatever that is.                                 *)
IsOption(args) ==
    \/ \E n \in Switches : args = <<Flag(n)>>
    \/ \E n \in TextFlags : args = <<Attached(n)>>
    \/ \E n \in TextFlags : Len(args) = 2 /\ args[1] = Flag(n)

(* A command line as the user thinks of it: some options, the command word  *)
(* if there is one, and some more options.                                  *)
Typed(intent) ==
    FlattenSeq(intent.before)
        \o (IF intent.cmd = "" THEN <<>> ELSE <<Word(intent.cmd)>>)
        \o FlattenSeq(intent.after)

Asked(intent, switch) == <<Flag(switch)>> \in Range(intent.before) \cup Range(intent.after)

Meant(intent) ==
    LET polls == intent.cmd \in {"", "run"}
    IN  IF intent.cmd = "once" \/ (polls /\ Asked(intent, "once")) THEN "once"
        ELSE IF polls THEN "run" ELSE "other"
=============================================================================
