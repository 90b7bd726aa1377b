----------------------------- MODULE Projection -----------------------------
(***************************************************************************)
(* The model-visible history of a session log: deriveMessagesFrom and      *)
(* balanceToolCalls of packages/core/src/projection.ts.                    *)
(*                                                                         *)
(* A row is [kind, id]; the id is that of a tool call, 0 elsewhere.  Text  *)
(* is left out: a message is its role, the calls it makes and the call it  *)
(* answers.                                                                *)
(***************************************************************************)
EXTENDS Naturals, Sequences, FiniteSets

Kind == {"start", "end", "user", "steer", "thinking", "reply", "call", "result", "cancelled"}
Row == [kind : Kind, id : Nat]

\* The elements of s that are in S, in their order: SelectSeq as a recursive
\* function.
Kept(s, S) ==
    LET from[i \in 0 .. Len(s)] ==
            IF i = 0 THEN <<>>
            ELSE IF s[i] \in S THEN Append(from[i - 1], s[i]) ELSE from[i - 1]
    IN from[Len(s)]

Ids(rows) == [i \in DOMAIN rows |-> rows[i].id]

\* The tool calls of a log, those it has a result for, and the others in their
\* order.
IdsOf(log, kinds) == {log[i].id : i \in {k \in DOMAIN log : log[k].kind \in kinds}}
CallIds(log) == IdsOf(log, {"call"})
ResultIds(log) == IdsOf(log, {"result", "cancelled"})
Unanswered(log) == Ids(Kept(log, [kind : {"call"}, id : CallIds(log) \ ResultIds(log)]))

-----------------------------------------------------------------------------

Message(role, calls, answers) == [role |-> role, calls |-> calls, answers |-> answers]
ToolMessage(id) == Message("tool", <<>>, id)

\* projectEvent: turn markers and thinking project to nothing.
Projected(row) ==
    CASE row.kind \in {"user", "steer"} -> <<Message("user", <<>>, 0)>>
      [] row.kind = "reply" -> <<Message("assistant", <<>>, 0)>>
      [] row.kind \in {"result", "cancelled"} -> <<ToolMessage(row.id)>>
      [] OTHER -> <<>>

\* flushToolCalls: consecutive calls are one message.
Flushed(pending) == IF pending = <<>> THEN <<>> ELSE <<Message("assistant", pending, 0)>>

\* deriveMessagesFrom reads one row: a call waits, and is flushed before any
\* other row.
Reads(so, row) ==
    IF row.kind = "call"
    THEN [messages |-> so.messages, pending |-> Append(so.pending, row.id)]
    ELSE [messages |-> so.messages \o Flushed(so.pending) \o Projected(row), pending |-> <<>>]

\* The messages of a log, and the calls that wait after its last row.
Reading(log) ==
    LET from[i \in 0 .. Len(log)] ==
            IF i = 0 THEN [messages |-> <<>>, pending |-> <<>>] ELSE Reads(from[i - 1], log[i])
    IN from[Len(log)]

\* deriveMessagesFrom, before the balance.
Derived(log) == Reading(log).messages \o Flushed(Reading(log).pending)

\* The position after the results that follow the message at i.
AfterResults(messages, i) ==
    CHOOSE j \in i + 1 .. Len(messages) + 1 :
        /\ \A k \in i + 1 .. j - 1 : messages[k].role = "tool"
        /\ j <= Len(messages) => messages[j].role # "tool"
Missing(messages, i) ==
    LET answered == {messages[k].answers : k \in i + 1 .. AfterResults(messages, i) - 1}
    IN Kept(messages[i].calls, Nat \ answered)

\* balanceToolCalls.  The cursor then skips the message right after the block.
Balanced(messages) ==
    LET tail[i \in 1 .. Len(messages) + 2] ==
            IF i > Len(messages) THEN <<>>
            ELSE IF messages[i].calls = <<>> THEN <<messages[i]>> \o tail[i + 1]
            ELSE LET j == AfterResults(messages, i)
                     missing == Missing(messages, i)
                     skipped == SubSeq(messages, j, IF j > Len(messages) THEN j - 1 ELSE j)
                 IN SubSeq(messages, i, j - 1) \o [n \in DOMAIN missing |-> ToolMessage(missing[n])]
                        \o skipped \o tail[j + 1]
    IN tail[1]

History(log) == Balanced(Derived(log))

\* What an OpenAI-compatible upstream accepts: every message with calls is
\* followed by exactly one result for each of them.
WellPaired(messages) ==
    \A i \in DOMAIN messages : messages[i].calls # <<>> =>
        /\ i + Len(messages[i].calls) <= Len(messages)
        /\ {messages[i].calls[n] : n \in DOMAIN messages[i].calls}
               = {messages[i + n].answers : n \in DOMAIN messages[i].calls}
        /\ AfterResults(messages, i) = i + Len(messages[i].calls) + 1
=============================================================================
