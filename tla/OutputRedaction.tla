---------------------------- MODULE OutputRedaction ----------------------------
(* What may leave the engine as text: execution/output.py, and the redaction  *)
(* of an event in capture_text of execution/embedded.py.  A text is a         *)
(* sequence of characters; a byte of UTF-8 is one character, since events are *)
(* encoded whole and the incremental decoder never meets a split one.         *)
EXTENDS Integers, SequencesExt, FiniteSetsExt

CONSTANTS
    Characters,     \* what the engine prints is made of
    Chunks,         \* what an engine prints at a time
    SecretSets,     \* the sets of secrets in force: DBT_ENV_SECRET_*, user, password
    TailSize,       \* max_output_bytes
    MaxLength       \* bound: the length of everything that is printed

\* An empty value is no secret.
ASSUME TextAssumption ==
    /\ Chunks \subseteq Seq(Characters)
    /\ \A ss \in SecretSets : IsFiniteSet(ss) /\ ss \subseteq Seq(Characters) \ {<<>>}
ASSUME TailAssumption == TailSize \in Nat

VARIABLES
    secrets,        \* the secrets of this engine call
    printed,        \* history: what the engine has printed so far
    buffer,         \* the _RedactingTailBuffer: its tail, what it keeps back, truncated
    finished        \* finish has been called

outputVars == <<secrets, printed, buffer, finished>>

\* REDACTION_MARKER, of three bytes.
Mark == <<"*", "*", "*">>
\* RUNTIME_PATH_MARKER, abridged.
RuntimeMark == <<"[", "]">>

--------------------------------------------------------------------------------
(* The scan: the leftmost match is replaced, and of those the longest.        *)

OccursAt(secret, text, i) ==
    /\ i + Len(secret) - 1 <= Len(text)
    /\ SubSeq(text, i, i + Len(secret) - 1) = secret

Occurs(secret, text) == \E i \in 1..Len(text) : OccursAt(secret, text, i)

\* The length of the first candidate of _secrets, which are sorted by length.
MatchLength(ss, text, i) == Max({0} \cup {Len(s) : s \in {s \in ss : OccursAt(s, text, i)}})

\* What _process appends to the tail from an index on, and keeps back.
ScanFrom(ss, mark, text, cutoff) ==
    LET from[i \in 1..Len(text) + 1] ==
            IF i > cutoff
            THEN [out |-> <<>>, pending |-> SubSeq(text, i, Len(text))]
            ELSE LET length == MatchLength(ss, text, i)
                     rest == from[i + Max({1, length})]
                 IN [out |-> (IF length = 0 THEN <<text[i]>> ELSE mark) \o rest.out,
                     pending |-> rest.pending]
    IN from

Scan(ss, mark, text, cutoff) == ScanFrom(ss, mark, text, cutoff)[1]

LongestSecret(ss) == Max({0} \cup {Len(s) : s \in ss})

\* Fault: one character too few is kept back.
CutoffEager(ss, text) == Min({Len(text), Max({0, Len(text) - LongestSecret(ss) + 2})})

\* Positions at or before the cutoff have a whole secret's length of text after them.
Cutoff(ss, text) == Min({Len(text), Max({0, Len(text) - LongestSecret(ss) + 1})})

\* A text in which everything is replaced.
ScanWhole(ss, mark, text) == Scan(ss, mark, text, Len(text)).out

\* value.replace(secret, mark)
Replace(text, secret, mark) == ScanWhole({secret}, mark, text)

--------------------------------------------------------------------------------
(* _RedactingTailBuffer over the bounded _TailBuffer.                         *)

EmptyBuffer == [tail |-> <<>>, pending |-> <<>>, truncated |-> FALSE]

LastOf(text, size) == SubSeq(text, Max({1, Len(text) - size + 1}), Len(text))

\* _TailBuffer.append
Retain(b, out) ==
    [b EXCEPT !.tail = LastOf(@ \o out, TailSize),
              !.truncated = @ \/ Len(b.tail \o out) > TailSize]

Process(b, text, final) ==
    LET combined == b.pending \o text
        cutoff == IF final THEN Len(combined) ELSE Cutoff(secrets, combined)
        scan == Scan(secrets, Mark, combined, cutoff)
    IN [Retain(b, scan.out) EXCEPT !.pending = scan.pending]

OutputInit ==
    /\ secrets \in SecretSets
    /\ printed = <<>>
    /\ buffer = EmptyBuffer
    /\ finished = FALSE

\* capture_text feeds the buffer event by event.
Feed(chunk) ==
    /\ ~finished
    /\ Len(printed) + Len(chunk) <= MaxLength
    /\ printed' = printed \o chunk
    /\ buffer' = Process(buffer, chunk, FALSE)
    /\ UNCHANGED <<secrets, finished>>

\* The flush at the end, which a failing dbt_execution calls twice.
Finish ==
    /\ buffer' = Process(buffer, <<>>, TRUE)
    /\ finished' = TRUE
    /\ UNCHANGED <<secrets, printed>>

OutputNext == Finish \/ \E chunk \in Chunks : Feed(chunk)

OutputSpec == OutputInit /\ [][OutputNext]_outputVars

--------------------------------------------------------------------------------
\* Fault: the secrets are replaced in any order.
OrdersOfSet(strings) == SetToSeqs(strings)

(* capture_text: paths first, then secrets, each from the longest down.  The  *)
(* order of those that are equally long is that of a set.                     *)
Orders(strings) ==
    {order \in SetToSeqs(strings) : \A i, j \in DOMAIN order : i < j => Len(order[i]) >= Len(order[j])}

ReplaceEach(text, strings, mark) ==
    LET after[i \in 0..Len(strings)] ==
            IF i = 0 THEN text ELSE Replace(after[i - 1], strings[i], mark)
    IN after[Len(strings)]

RedactedBy(text, paths, ss) == ReplaceEach(ReplaceEach(text, paths, RuntimeMark), ss, Mark)

--------------------------------------------------------------------------------
\* A marker is text that was not printed: it may well contain a secret of its
\* own characters.
SharesNothing(s, mark) == ToSet(s) \cap ToSet(mark) = {}

(* However the engine's output is cut into chunks, what the tail buffer holds  *)
(* in the end is the tail of the output redacted as a whole: no secret passes  *)
(* because two chunks share it, or because the limit of the tail cuts it, and  *)
(* truncation is reported exactly when something was lost (_process, append). *)
ChunksAreRedactedAsOne ==
    LET whole == ScanWhole(secrets, Mark, printed) IN
    /\ finished => buffer = [tail |-> LastOf(whole, TailSize), pending |-> <<>>,
                             truncated |-> Len(whole) > TailSize]
    /\ \A s \in secrets : SharesNothing(s, Mark) => ~Occurs(s, buffer.tail)

\* Secret s stands at i in the text, and others only inside of it or apart from it.
StandsAlone(s, i, text, paths, ss) ==
    /\ OccursAt(s, text, i)
    /\ \A t \in paths \cup ss : \A j \in 1..Len(text) :
        OccursAt(t, text, j) =>
            \/ j + Len(t) <= i
            \/ i + Len(s) <= j
            \/ t \in ss /\ i <= j /\ j + Len(t) <= i + Len(s)

(* Take what is printed for the text of an event, and some of the strings for  *)
(* runtime paths.  No secret is left in the event that capture_text hands on, *)
(* whatever order equally long secrets and paths come in; and of a secret that *)
(* other secrets are part of nothing at all is left.                          *)
EventsAreRedacted ==
    \A paths \in SUBSET secrets :
        \A ps \in Orders(paths), ss \in Orders(secrets \ paths) :
            LET Redacted(t) == RedactedBy(t, ps, ss) IN
            \A s \in secrets \ paths :
                /\ SharesNothing(s, Mark) => ~Occurs(s, Redacted(printed))
                /\ \A i \in 1..Len(printed) :
                    /\ \A t \in secrets : SharesNothing(t, Mark) /\ SharesNothing(t, RuntimeMark)
                    /\ StandsAlone(s, i, printed, paths, secrets \ paths)
                    => Redacted(printed) = Redacted(SubSeq(printed, 1, i - 1)) \o Mark
                                           \o Redacted(SubSeq(printed, i + Len(s), Len(printed)))
================================================================================
