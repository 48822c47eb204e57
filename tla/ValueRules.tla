------------------------------ MODULE ValueRules ------------------------------
(***************************************************************************)
(* Values that are written in one form and read in another                 *)
(* (internal/domain: validation.go; internal/nixos: environment.go;        *)
(* internal/vm: update.go). Sizes are in SizeRules.                        *)
(*                                                                         *)
(* Text is a sequence of the characters that mean something to one of its  *)
(* readers, which are systemd and a POSIX shell.                           *)
(***************************************************************************)
EXTENDS SequencesExt, SizeRules

-----------------------------------------------------------------------------
\* The environment of a guest.

Special == {"backslash", "quote", "dollar", "backtick"}
Characters == Special \cup {"letter", "newline", "noncharacter"}

NewEnvValue(value) == \A i \in DOMAIN value : value[i] # "noncharacter"

\* Mutant: the shell's backtick is forgotten.
EscapeSystemd(value) ==
    FlattenSeq([i \in DOMAIN value |->
        IF value[i] \in Special \ {"backtick"} THEN <<"backslash", value[i]>> ELSE <<value[i]>>])

\* What would end a value, or be expanded in it, is escaped.
Escape(value) ==
    FlattenSeq([i \in DOMAIN value |->
        IF value[i] \in Special THEN <<"backslash", value[i]>> ELSE <<value[i]>>])

\* The lines of environment, or of environment.sh after "export ", in the
\* order of their names; a value that no file can hold is refused.
RenderEnvironmentFiles(names, env) ==
    [ok |-> \A i \in DOMAIN names : NewEnvValue(env[names[i]]),
     text |-> FlattenSeq([i \in DOMAIN names |->
        <<names[i], "=", "quote">> \o Escape(env[names[i]]) \o <<"quote", "newline">>])]

\* The readers take one character after the other. A line is a name, an equals
\* sign and a value in double quotes. In it a backslash takes away the meaning
\* of the next character if that has one, and is itself otherwise. Systemd
\* takes a dollar and a backtick as they are; a shell would expand them.
\* Systemd refuses a file with a noncharacter in it.
Reading(env) == [at |-> "line", name |-> "", value |-> <<>>, env |-> env]

Assign(env, name, value) ==
    [n \in DOMAIN env \cup {name} |-> IF n = name THEN value ELSE env[n]]

\* What cannot stand in a value by itself.
Unreadable(shell) == IF shell THEN Special ELSE {"quote", "backslash", "noncharacter"}

Read(s, c, shell) ==
    CASE s.at = "line" -> [s EXCEPT !.at = "name", !.name = c]
      [] s.at = "name" /\ c = "=" -> [s EXCEPT !.at = "equals"]
      [] s.at = "equals" /\ c = "quote" -> [s EXCEPT !.at = "value"]
      [] s.at = "value" /\ c = "quote" -> [s EXCEPT !.at = "quoted"]
      [] s.at = "value" /\ c = "backslash" -> [s EXCEPT !.at = "escape"]
      [] s.at = "value" /\ c \notin Unreadable(shell) -> [s EXCEPT !.value = Append(@, c)]
      [] s.at = "escape" /\ c \in Special -> [s EXCEPT !.at = "value", !.value = Append(@, c)]
      [] s.at = "escape" /\ c = "newline" -> [s EXCEPT !.at = "value"]
      [] s.at = "escape" /\ c \notin Unreadable(shell) \cup Special \cup {"newline"}
            -> [s EXCEPT !.at = "value", !.value = @ \o <<"backslash", c>>]
      [] s.at = "quoted" /\ c = "newline" -> Reading(Assign(s.env, s.name, s.value))
      [] OTHER -> [s EXCEPT !.at = "error"]

ReadText(start, text, shell) ==
    LET after[n \in 0..Len(text)] ==
            IF n = 0 THEN start ELSE Read(after[n - 1], text[n], shell)
    IN after[Len(text)]

\* Both readers of the written environment get every variable with exactly
\* its value, whatever characters the values consist of.
EnvironmentSurvives(names, env) ==
    LET files == RenderEnvironmentFiles(names, env)
    IN files.ok => \A shell \in BOOLEAN :
            ReadText(Reading(<<>>), files.text, shell) = Reading(env)

=============================================================================
