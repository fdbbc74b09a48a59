----------------------------- MODULE Arguments ------------------------------
(***************************************************************************)
(* From the command line of DrShadowStack to the command line of drrun:    *)
(* parse_args reads argv twice with boost::program_options, once for       *)
(* --help and --version and once for the mode, the target and its          *)
(* arguments, and start_program hands the result on.                       *)
(*                                                                         *)
(* The target's arguments are not set apart before either pass: what of    *)
(* them DrShadowStack takes for its own is the question of this module.    *)
(*                                                                         *)
(* A token stands for every way to write it: "--ss_mode" for the prefixes  *)
(* boost guesses from and for --ss_mode=value, "--help" for -h.            *)
(***************************************************************************)
EXTENDS Integers, Sequences, FiniteSets, SequencesExt

CONSTANTS
    Words,          \* tokens that do not begin with a dash
    Flags,          \* options DrShadowStack does not know
    DefaultMode,    \* DEFAULT_MODE
    MaxArgs         \* bound on the number of arguments

Modes == {"int", "ext", "prot_int"}

UsageOptions == {"--help", "--version"}

\* The options of the second pass; each takes the next token for its value.
ConfigOptions == {"--ss_mode", "--target", "--target-args"}

Terminator == "--"

Token == Words \union Flags \union UsageOptions \union ConfigOptions
            \union {Terminator}

\* A word is nothing DrShadowStack looks for; CMakeLists.txt:49, "Default mode:
\* int for internal, ext for external".
ASSUME TokenAssumption ==
    /\ Words \intersect (UsageOptions \union ConfigOptions
                            \union {Terminator}) = {}
    /\ DefaultMode \in {"int", "ext"}
    /\ MaxArgs \in Nat

VARIABLES
    argv,       \* the arguments of DrShadowStack, without argv[0]
    pc,         \* how far main has come
    found,      \* what the second pass has found
    command     \* what start_program passes to drrun after the client

vars == <<argv, pc, found, command>>

\* mode, target: the values given to these options by name; positional: the
\* tokens that are no option; rest: these and the options nobody knows, as
\* collect_unrecognized lists them; wants: the option that lacks its value.
NothingFound ==
    [mode |-> <<>>, target |-> <<>>, positional |-> <<>>, rest |-> <<>>,
     wants |-> "", ended |-> FALSE]

Init ==
    /\ argv \in SeqOf(Token, MaxArgs)
    /\ pc = "usage"
    /\ found = NothingFound
    /\ command = <<>>

-----------------------------------------------------------------------------
(* The first pass. *)

\* Up to the terminator: what comes after it is no option.
Options == LET end == {i \in DOMAIN argv : argv[i] = Terminator}
           IN  {i \in DOMAIN argv : \A e \in end : i < e}

Occurs(opt) == Cardinality({i \in Options : argv[i] = opt})

\* store() refuses an option it has seen before.
UsageRepeated == \E opt \in UsageOptions : Occurs(opt) > 1

\* Mutant of UsageAsked: argc is not looked at.
UsageSeen == \E opt \in UsageOptions : Occurs(opt) = 1

\* --help and --version are for DrShadowStack only when they are alone.
UsageAsked == \E opt \in UsageOptions : Occurs(opt) = 1 /\ Len(argv) = 1

PrintsUsage ==
    /\ pc = "usage" /\ ~UsageRepeated /\ UsageAsked
    /\ pc' = "exited"
    /\ UNCHANGED <<argv, found, command>>

UsageFails ==
    /\ pc = "usage" /\ UsageRepeated
    /\ pc' = "terminated"
    /\ UNCHANGED <<argv, found, command>>

NoUsage ==
    /\ pc = "usage" /\ ~UsageRepeated /\ ~UsageAsked
    /\ pc' = "config"
    /\ UNCHANGED <<argv, found, command>>

-----------------------------------------------------------------------------
(* The second pass. *)

Positional(r, tok) == [r EXCEPT !.positional = Append(@, tok),
                                !.rest = Append(@, tok)]

\* An option takes the token after it whatever that is.
TakeValue(r, tok) ==
    [r EXCEPT !.wants = "",
              !.mode = IF r.wants = "--ss_mode" THEN Append(@, tok) ELSE @,
              !.target = IF r.wants = "--target" THEN Append(@, tok) ELSE @]

\* The parser at its next token.
Scan(r, tok) ==
    IF r.wants # "" THEN TakeValue(r, tok)
    ELSE IF r.ended \/ tok \in Words THEN Positional(r, tok)
    ELSE IF tok = Terminator THEN [r EXCEPT !.ended = TRUE]
    ELSE IF tok \in ConfigOptions THEN [r EXCEPT !.wants = tok]
    ELSE [r EXCEPT !.rest = Append(@, tok)]

Scanned ==
    LET after[i \in 0 .. Len(argv)] ==
            IF i = 0 THEN NothingFound ELSE Scan(after[i - 1], argv[i])
    IN  after[Len(argv)]

\* The first positional token is the target, unless it has one already.
Targets(r) ==
    IF r.positional = <<>> THEN r.target
    ELSE Append(r.target, Head(r.positional))

\* Mutant of Consistent: notify() is not called.
ConsistentUnnotified(r) ==
    r.wants = "" /\ Len(r.mode) <= 1 /\ Len(Targets(r)) <= 1

\* run(), store() and notify() throw nothing.
Consistent(r) == r.wants = "" /\ Len(r.mode) <= 1 /\ Len(Targets(r)) = 1

ConfigFails ==
    /\ pc = "config"
    /\ ~Consistent(Scanned)
    /\ pc' = "terminated"
    /\ UNCHANGED <<argv, found, command>>

ParseConfig ==
    /\ pc = "config"
    /\ Consistent(Scanned)
    /\ found' = Scanned
    /\ pc' = "compare"
    /\ UNCHANGED <<argv, command>>

\* ( *target_args )[0] when a target given by name is all there is: the first
\* element of an empty vector.
ReadsNoArgument ==
    /\ pc = "compare"
    /\ found.rest = <<>>
    /\ pc' = "crashed"
    /\ UNCHANGED <<argv, found, command>>

TargetNotFirst ==
    /\ pc = "compare"
    /\ found.rest # <<>>
    /\ found.rest[1] # Targets(found)[1]
    /\ pc' = "terminated"
    /\ UNCHANGED <<argv, found, command>>

\* Mutant of TargetFirst: the two are not compared.
TargetAnywhere ==
    /\ pc = "compare"
    /\ found.rest # <<>>
    /\ pc' = "verify"
    /\ UNCHANGED <<argv, found, command>>

TargetFirst ==
    /\ pc = "compare"
    /\ found.rest # <<>>
    /\ found.rest[1] = Targets(found)[1]
    /\ pc' = "verify"
    /\ UNCHANGED <<argv, found, command>>

-----------------------------------------------------------------------------
(* The mode, and what main does with the result. *)

Mode == IF found.mode = <<>> THEN DefaultMode ELSE found.mode[1]

InvalidMode ==
    /\ pc = "verify" /\ Mode \notin Modes
    /\ pc' = "terminated"
    /\ UNCHANGED <<argv, found, command>>

\* prot_int is a mode for parse_args and for nobody else.
Unimplemented ==
    /\ pc = "verify" /\ Mode = "prot_int"
    /\ pc' = "terminated"
    /\ UNCHANGED <<argv, found, command>>

StartProgram ==
    /\ pc = "verify" /\ Mode \in {"int", "ext"}
    /\ command' = <<Mode, Terminator, Targets(found)[1]>> \o Tail(found.rest)
    /\ pc' = "started"
    /\ UNCHANGED <<argv, found>>

Next ==
    \/ PrintsUsage \/ UsageFails \/ NoUsage
    \/ ConfigFails \/ ParseConfig
    \/ ReadsNoArgument \/ TargetNotFirst \/ TargetFirst
    \/ InvalidMode \/ Unimplemented \/ StartProgram

Spec == Init /\ [][Next]_vars

-----------------------------------------------------------------------------
(* Properties *)

Done == pc \in {"exited", "terminated", "crashed", "started"}

\* argv without the tokens at the places in D.
Without(D) ==
    LET kept[i \in 0 .. Len(argv)] ==
            CASE i = 0 -> <<>>
              [] i \in D -> kept[i - 1]
              [] OTHER -> Append(kept[i - 1], argv[i])
    IN  kept[Len(argv)]

\* The places of some options and of the values they take.
Pairs(opts) == opts \union {i + 1 : i \in opts}

\* README.md:69: DrShadowStack [--ss_mode <Mode>] <target> <arguments>, with
\* n tokens before the target and no token of the arguments that
\* DrShadowStack knows, other than --help and --version once each.
Documented(n) ==
    /\ n < Len(argv)
    /\ n = 2 => argv[1] = "--ss_mode" /\ argv[2] \in {"int", "ext"}
    /\ argv[n + 1] \in Words
    /\ \A i \in n + 2 .. Len(argv) :
          argv[i] \notin ConfigOptions \union {Terminator}
    /\ ~UsageRepeated

\* A command line of the documented form starts its target with exactly the
\* arguments given, --help and --version among them, in the mode given or
\* the default (CHANGELOG.md:34 and 36 are about what the passes took away).
DocumentedFormStarts ==
    \A n \in {0, 2} :
        Documented(n) /\ Done =>
            /\ pc = "started"
            /\ command = <<IF n = 2 THEN argv[2] ELSE DefaultMode, Terminator>>
                            \o SubSeq(argv, n + 1, Len(argv))

\* Whatever is started is what the command line says, in its order, without
\* the following and nothing else: one --ss_mode and its value, wherever it
\* stands; values given by name to --target and --target-args, which are
\* lost; and one terminator, which the target never sees.
StartsOnlyWhatWasGiven ==
    pc = "started" =>
        \E modes, lost, ends \in SUBSET DOMAIN argv :
            /\ Cardinality(modes) <= 1 /\ Cardinality(ends) <= 1
            /\ Pairs(modes \union lost) \subseteq DOMAIN argv
            /\ \A i \in modes : argv[i] = "--ss_mode"
            /\ \A i \in lost : argv[i] \in {"--target", "--target-args"}
            /\ \A i \in ends : argv[i] = Terminator
            /\ command =
                  <<IF modes = {} THEN DefaultMode
                    ELSE argv[1 + CHOOSE i \in modes : TRUE], Terminator>>
                  \o Without(Pairs(modes \union lost) \union ends)

\* The vector that may be empty is read only when the target was given with
\* --target, which --help offers; and a command line with it starts nothing,
\* unless the name is that of an option.
TargetByName ==
    /\ pc = "crashed" => "--target" \in Range(argv)
    /\ pc = "started" /\ found.target # <<>> => found.target[1] \notin Words
=============================================================================
