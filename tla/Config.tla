------------------------------- MODULE Config -------------------------------
(***************************************************************************)
(* The configuration file (internal/config/config.go): Parse reads it line *)
(* by line into sections, turns the sections into a Config, sorts the      *)
(* upstreams and validates the result.                                     *)
(*                                                                         *)
(* The reader is modelled character by character: stripComment and         *)
(* splitUCI each scan a line with quoting rules of their own.  Of a        *)
(* character only its class is kept, and of a line only how many fields it *)
(* has; what the sections say is chosen when the file has been read, from  *)
(* Files.  Integers wrap around at Half, like the text that Atoi accepts   *)
(* and the nanoseconds of a time.Duration (2^63 on a 64-bit target).       *)
(***************************************************************************)
EXTENDS Integers, Sequences, FiniteSets

CONSTANTS
    Files,        \* what a file may say: sequences of sections
    Defaults,     \* the options of a main section that sets none
    Half,         \* the least number too large for an int or a time.Duration
    Millisecond, Second,   \* in nanoseconds
    MaxPort,      \* 65535
    MaxSections,  \* bound: sections of a file
    Unset,        \* the value of an option that a section does not have
    Junk,         \* a text that is not what the option needs
    NoConfig      \* no configuration has been loaded

ASSUME HalfAssumption == Half \in Nat \ {0}
ASSUME UnitsAssumption == Millisecond \in Nat \ {0} /\ Second \in Nat \ {0}
ASSUME UnsetAssumption == Unset # 0
ASSUME FilesAssumption ==
    \A f \in Files : /\ Len(f) \in Nat /\ Len(f) <= MaxSections /\ DOMAIN f = 1..Len(f)
                     /\ \A k \in DOMAIN f : f[k].name \in Nat

VARIABLES
    load,      \* Load: "idle", "line" in its line loop, "sections" after it,
               \* "failed" with an error or "ok"
    lex,       \* the scans of the line it is in
    opened,    \* the config directives so far
    sections,  \* what the file said
    cfg        \* the configuration that was returned

configVars == <<load, lex, opened, sections, cfg>>

-----------------------------------------------------------------------------
(* One line. *)

Quotes == {"single", "double"}

\* A space is a blank or a tab; a plain character is any that means nothing.
Characters == Quotes \cup {"backslash", "space", "hash", "plain"}

\* The quote that stripComment is in, after the character c.
StripStepAnyQuote(quote, c) ==
    IF c \notin Quotes THEN quote ELSE IF quote = "none" THEN c ELSE "none"

StripStep(quote, c) ==
    CASE quote = "none" /\ c \in Quotes -> c
      [] quote = c                      -> "none"
      [] OTHER                          -> quote

\* splitUCI: open, a field has been begun; fields, those that are complete,
\* counted up to 4, one more than a directive may have.
SplitStart == [quote |-> "none", escaped |-> FALSE, open |-> FALSE, fields |-> 0]

Flush(s) ==
    IF ~s.open THEN s
    ELSE [s EXCEPT !.open = FALSE, !.fields = IF @ < 4 THEN @ + 1 ELSE @]

Write(s) == [s EXCEPT !.open = TRUE]

SplitStep(s, c) ==
    IF s.escaped                                  THEN [Write(s) EXCEPT !.escaped = FALSE]
    ELSE IF c = "backslash" /\ s.quote # "single" THEN [s EXCEPT !.escaped = TRUE]
    ELSE IF s.quote # "none"
         THEN IF c = s.quote THEN [s EXCEPT !.quote = "none"] ELSE Write(s)
    ELSE IF c \in Quotes                          THEN [s EXCEPT !.quote = c]
    ELSE IF c = "space"                           THEN Flush(s)
    ELSE Write(s)

(***************************************************************************)
(* The two scans in step.  TrimSpace removes the spaces before the end of  *)
(* the line or the comment, and splitUCI never sees them: kept is where it *)
(* stands after the last other character.  blank: there was none so far.   *)
(* slash: history, there was a backslash.                                  *)
(***************************************************************************)
LineStart == [ strip |-> "none", split |-> SplitStart, kept |-> SplitStart,
               blank |-> TRUE, slash |-> FALSE ]

LexStep(l, c) ==
    LET split == SplitStep(l.split, c)
    IN  [ strip |-> StripStep(l.strip, c), split |-> split,
          kept  |-> IF c = "space" THEN l.kept ELSE split,
          blank |-> l.blank /\ c = "space",
          slash |-> l.slash \/ c = "backslash" ]

StartsComment(l, c) == l.strip = "none" /\ c = "hash"

\* What Parse makes of the directive d with n fields, after k config directives.
DirectiveOK(d, n, k) ==
    \/ d = "config" /\ n \in {2, 3}
    \/ d \in {"option", "list"} /\ k > 0 /\ n = 3

-----------------------------------------------------------------------------
(* The sections. *)

IntRange == -Half..(Half - 1)

\* The product of a number and a unit, as Go computes it.
Wrap(n) == ((n + Half) % (2 * Half)) - Half

Option(s, key, fallback) == IF s.opt[key] = Unset THEN fallback ELSE s.opt[key]

\* The options whose text boolOption, intOption or parseProbe refuse.
BadBool(s, key) == s.opt[key] \notin {0, 1, Unset}

BadInt(s, key) == s.opt[key] \notin IntRange \cup {Unset}

MainInts == { "listen_port", "attempt_timeout_ms", "request_timeout_ms",
              "health_interval_s", "fail_threshold", "recover_threshold",
              "max_concurrent" }

ASSUME DefaultsAssumption == \A key \in MainInts : Defaults[key] \in IntRange

BadProbe(s) == \E i \in DOMAIN s.probe : s.probe[i] = Junk

MainOK(s) ==
    ~BadBool(s, "enabled") /\ (\A key \in MainInts : ~BadInt(s, key)) /\ ~BadProbe(s)

UpstreamOK(s) ==
    s.name # 0 /\ ~BadBool(s, "enabled") /\ ~BadInt(s, "priority") /\ ~BadInt(s, "port")

SectionOK(s) ==
    \/ s.kind = "main" /\ MainOK(s)
    \/ s.kind = "upstream" /\ UpstreamOK(s)

parseUpstream(s) ==
    [ name |-> s.name, priority |-> Option(s, "priority", 0),
      protocol |-> Option(s, "protocol", "udp"),
      address |-> Option(s, "address", ""), port |-> Option(s, "port", Defaults.port) ]

EnabledUpstreams(f) ==
    {k \in DOMAIN f : f[k].kind = "upstream" /\ Option(f[k], "enabled", 1) = 1}

\* The order of the upstreams: by priority and then by name.
PrecedesByName(a, b) == a.name < b.name

Precedes(a, b) ==
    a.priority < b.priority \/ (a.priority = b.priority /\ a.name < b.name)

\* The enabled upstreams of the file f, in that order; two that are equal in it,
\* which Validate refuses, in either.
Sorted(f) ==
    LET on == EnabledUpstreams(f)
        Orders(p) ==
            /\ \A k \in on : \E i \in DOMAIN p : p[i] = k
            /\ \A i, j \in DOMAIN p :
                 i < j => ~Precedes(parseUpstream(f[p[j]]), parseUpstream(f[p[i]]))
        order == CHOOSE p \in [1..Cardinality(on) -> on] : Orders(p)
    IN  [i \in 1..Cardinality(on) |-> parseUpstream(f[order[i]])]

MainOption(s, key) == Option(s, key, Defaults[key])

\* A number of units, as the product of two durations.
DurationInMilliseconds(s, key, unit) == Wrap(MainOption(s, key) * Millisecond)

Duration(s, key, unit) == Wrap(MainOption(s, key) * unit)

applyMain(s) ==
    [ listen_addr   |-> MainOption(s, "listen_addr"),
      listen_port   |-> MainOption(s, "listen_port"),
      attempt       |-> Duration(s, "attempt_timeout_ms", Millisecond),
      request       |-> Duration(s, "request_timeout_ms", Millisecond),
      interval      |-> Duration(s, "health_interval_s", Second),
      fail          |-> MainOption(s, "fail_threshold"),
      recover       |-> MainOption(s, "recover_threshold"),
      max           |-> MainOption(s, "max_concurrent"),
      status_socket |-> MainOption(s, "status_socket"),
      probes        |-> s.probe ]

\* The text that ParseIP accepts is "ip", an empty text "".
ValidUpstream(u) ==
    /\ u.priority >= 0
    /\ u.protocol \in {"udp", "tcp"}
    /\ u.address = "ip"
    /\ u.port \in 1..MaxPort

Distinct(us) ==
    \A i, j \in DOMAIN us :
        i # j => us[i].name # us[j].name /\ us[i].priority # us[j].priority

ValidMain(m) ==
    /\ m.listen_addr = "ip" /\ m.listen_port \in 1..MaxPort
    /\ m.attempt > 0 /\ m.request >= m.attempt /\ m.interval > 0
    /\ m.fail >= 1 /\ m.recover >= 1 /\ m.max >= 1
    /\ m.status_socket # ""
    /\ m.probes # << >>

Validate(m, us) ==
    /\ ValidMain(m)
    /\ us # << >>
    /\ \A i \in DOMAIN us : ValidUpstream(us[i])
    /\ Distinct(us)

\* The Config that the sections f make, or NoConfig when one of the checks fails.
ParsedSections(f) ==
    LET m  == CHOOSE k \in DOMAIN f : f[k].kind = "main"
        us == Sorted(f)
    IN  IF /\ \A i \in DOMAIN f : SectionOK(f[i])
           /\ \E i \in DOMAIN f : {k \in DOMAIN f : f[k].kind = "main"} = {i}
           /\ Validate(applyMain(f[m]), us)
        THEN [main |-> applyMain(f[m]), upstreams |-> us]
        ELSE NoConfig

-----------------------------------------------------------------------------
(* Load *)

ConfigInit ==
    /\ load = "idle"
    /\ lex = LineStart
    /\ opened = 0
    /\ sections = << >>
    /\ cfg = NoConfig

BeginLoad ==
    /\ load = "idle"
    /\ load' \in {"line", "failed"}    \* os.Open may fail
    /\ UNCHANGED <<lex, opened, sections, cfg>>

LoadFails ==
    /\ load' = "failed"
    /\ lex' = LineStart
    /\ opened' = 0
    /\ UNCHANGED <<sections, cfg>>

\* splitUCI finds no open quote or escape, and Parse takes the directive.
LineOK(d) ==
    /\ ~lex.kept.escaped /\ lex.kept.quote = "none"
    /\ DirectiveOK(d, Flush(lex.kept).fields, opened)

ReadCharacter ==
    /\ load = "line"
    /\ \E c \in Characters : ~StartsComment(lex, c) /\ lex' = LexStep(lex, c)
    /\ UNCHANGED <<load, opened, sections, cfg>>

\* The end of the line, or of what precedes its comment: in some state of
\* stripComment a hash has the same effect, and any line may stop anywhere.
EndLine ==
    /\ load = "line"
    /\ IF lex.blank THEN lex' = LineStart /\ UNCHANGED <<load, opened, sections, cfg>>
       ELSE \E d \in {"config", "option", "list", "other"} :
              IF ~LineOK(d)
              THEN LoadFails
              ELSE /\ d = "config" => opened < MaxSections
                   /\ opened' = IF d = "config" THEN opened + 1 ELSE opened
                   /\ lex' = LineStart
                   /\ UNCHANGED <<load, sections, cfg>>

\* The scanner stops: at the end of the file, or with an error.
EndFile ==
    /\ load = "line"
    /\ lex = LineStart
    /\ load' = "sections"
    /\ UNCHANGED <<lex, opened, sections, cfg>>

ScanFails == load = "line" /\ LoadFails

ParseSections ==
    /\ load = "sections"
    /\ \E f \in Files :
         /\ Len(f) = opened
         /\ sections' = f
         /\ cfg' = ParsedSections(f)
    /\ load' = IF cfg' = NoConfig THEN "failed" ELSE "ok"
    /\ opened' = 0
    /\ UNCHANGED lex

ConfigStep ==
    BeginLoad \/ ReadCharacter \/ EndLine \/ EndFile \/ ScanFails \/ ParseSections

-----------------------------------------------------------------------------
(***************************************************************************)
(* stripComment and splitUCI scan the same line with rules of their own,   *)
(* and only the second knows the backslash.  On a line without one they    *)
(* agree on every quote, so that no text in quotes is cut off as a         *)
(* comment.                                                                *)
(***************************************************************************)
QuotesAgree == ~lex.slash => lex.strip = lex.split.quote

(***************************************************************************)
(* A loaded configuration lists exactly the enabled upstreams of the file, *)
(* in strictly increasing priority, in whatever order the file has them:   *)
(* the manager takes the first of the list for the most preferred one.     *)
(***************************************************************************)
UpstreamsInOrder ==
    load = "ok" =>
        LET us == cfg.upstreams IN
        /\ \A i, j \in DOMAIN us : i < j => us[i].priority < us[j].priority
        /\ {us[i].name : i \in DOMAIN us} =
           {sections[i].name : i \in {k \in DOMAIN sections :
               sections[k].kind = "upstream" /\ sections[k].opt.enabled # 0}}

(***************************************************************************)
(* docs/en/configuration.md: "request_timeout_ms must be at least          *)
(* attempt_timeout_ms".  It holds of the times the daemon works with, and  *)
(* they are positive, also when the conversion to nanoseconds overflows;   *)
(* where it does not, they are the ones the file gives, or the defaults.   *)
(***************************************************************************)
TimesAsWritten ==
    load = "ok" =>
        LET m == CHOOSE k \in DOMAIN sections : sections[k].kind = "main"
            Written(key, unit) == MainOption(sections[m], key) * unit
            Is(time, n) == 0 < time /\ (n \in IntRange => time = n)
        IN  /\ Is(cfg.main.attempt, Written("attempt_timeout_ms", Millisecond))
            /\ Is(cfg.main.request, Written("request_timeout_ms", Millisecond))
            /\ Is(cfg.main.interval, Written("health_interval_s", Second))
            /\ cfg.main.attempt <= cfg.main.request
=============================================================================
