----------------------------- MODULE Guardrails -----------------------------
(***************************************************************************)
(* The guardrails around a chat: masking of personal data and moderation,  *)
(* pre_call and post_call of guardrails.rs, with the masker of             *)
(* pii_masking.rs that all requests share behind one mutex.                *)
(*                                                                         *)
(* A text is a sequence of bytes, a byte being <<piece, n>>, the n-th of a *)
(* piece of plain text, of personal data or of a placeholder, so that the  *)
(* masker can work on offsets as the code does.  The matches of a pattern  *)
(* are the pieces of its kind.                                             *)
(*                                                                         *)
(* The mutex is held from the lock to the end of pre_call or post_call,    *)
(* over the HTTP call to the moderation endpoint.                          *)
(***************************************************************************)
EXTENDS Integers, Sequences, SequencesExt

CONSTANTS
    Screened,        \* the requests of a behaviour
    Conversations,   \* what a request can carry: sequences of contents
    Configs,         \* GuardrailsConfig: the values to explore
    default_patterns,\* the kinds of personal data, in the order they are masked
    Placeholder,     \* kind -> length of its replacement
    Wrap,            \* usize arithmetic is modulo this
    NoMask           \* nothing: no entry in mask_map, no reply yet, a content without a text

VARIABLES
    config,
    held,        \* who holds the mutex: a request, or NoMask
    mask_map,    \* request -> replacements, or NoMask
    screening    \* where each request is

gvars == <<config, held, mask_map, screening>>

Piece(kind, id, width) == [kind |-> kind, id |-> id, width |-> width]
Bytes(piece) == [n \in 1..piece.width |-> <<piece, n>>]
Flat(pieces) == FlattenSeq([i \in 1..Len(pieces) |-> Bytes(pieces[i])])
Kinds == ToSet(default_patterns)
Rank(kind) == CHOOSE p \in 1..Len(default_patterns) : default_patterns[p] = kind
Mark(kind) == Bytes(Piece("placeholder", Rank(kind), Placeholder[kind]))

GInit ==
    /\ config \in Configs
    /\ held = NoMask
    /\ mask_map = [r \in Screened |-> NoMask]
    /\ screening \in [Screened -> {[pc |-> "idle", tools |-> t, sent |-> c, was |-> c, reply |-> NoMask]
                                     : t \in BOOLEAN, c \in Conversations}]

----------------------------------------------------------------------------
(* PiiMasker.                                                              *)

\* Regex::find_iter: start (counted from 0) and end of each match, left to right.
find_iter(kind, text) ==
    LET at == {i \in 1..Len(text) : text[i][2] = 1 /\ text[i][1].kind = kind}
        starts == SetToSortSeq(at, <)
    IN  [i \in 1..Len(starts) |-> <<starts[i] - 1, starts[i] - 1 + text[starts[i]][1].width>>]

replace_range(text, start, end, by) == SubSeq(text, 1, start) \o by \o SubSeq(text, end + 1, Len(text))

\* Mutant: the earlier replacements of a pattern are not allowed for.
Replace_unshifted(kind, acc, match) ==
    [acc EXCEPT
        !.text = replace_range(@, match[1], match[2], Mark(kind)),
        !.replacements = Append(@, [start |-> match[1], kind |-> kind,
                                    original |-> SubSeq(acc.text, match[1] + 1, match[2])])]

\* One match of one pattern; a placeholder longer than the match makes offset wrap.
Replace(kind, acc, match) ==
    LET start == (match[1] - acc.offset) % Wrap
        end == (match[2] - acc.offset) % Wrap
    IN  [text |-> replace_range(acc.text, start, end, Mark(kind)),
         offset |-> (acc.offset + end - start - Placeholder[kind]) % Wrap,
         replacements |-> Append(acc.replacements,
             [start |-> start, kind |-> kind, original |-> SubSeq(acc.text, start + 1, end)])]

\* The masked text and the replacements, in the order they were made.
mask(text) ==
    FoldLeft(LAMBDA acc, kind :
                 FoldLeft(LAMBDA a, m : Replace(kind, a, m), [acc EXCEPT !.offset = 0],
                          find_iter(kind, acc.text)),
             [text |-> text, offset |-> 0, replacements |-> <<>>], default_patterns)

\* Mutant: the lengths of the originals put back are not allowed for.
Restore_unshifted(acc, x) ==
    [acc EXCEPT !.text = IF @ # NoMask /\ x.start + Placeholder[x.kind] <= Len(@)
                         THEN replace_range(@, x.start, x.start + Placeholder[x.kind], x.original)
                         ELSE NoMask]

\* One replacement undone, at its recorded place; out of range is a panic.
Restore(acc, x) ==
    LET start == acc.offset + x.start
        end == start + Placeholder[x.kind]
    IN  IF acc.text = NoMask \/ start < 0 \/ end > Len(acc.text)
        THEN [acc EXCEPT !.text = NoMask]
        ELSE [text |-> replace_range(acc.text, start, end, x.original),
              offset |-> acc.offset + Len(x.original) - Placeholder[x.kind]]

unmask(text, replacements) ==
    IF replacements = NoMask THEN text
    ELSE FoldLeft(Restore, [text |-> text, offset |-> 0], replacements).text

----------------------------------------------------------------------------
(* pre_call.                                                               *)

\* A content with a text, be it empty, becomes a text, and what else it carried is dropped;
\* each one that is masked overwrites the entry of the request.
Masked(c) == IF c.text = NoMask THEN c ELSE [text |-> mask(c.text).text, other |-> FALSE]
WithText(contents) == {i \in DOMAIN contents : contents[i].text # NoMask}
LastMasked(contents) == CHOOSE i \in WithText(contents) : \A j \in WithText(contents) : j <= i

MaskEntry(r, contents) ==
    IF config.pii_enabled /\ WithText(contents) # {}
    THEN [mask_map EXCEPT ![r] = mask(contents[LastMasked(contents)].text).replacements]
    ELSE mask_map

\* check_moderation asks nobody about a text that is blank.
pre_call(r) ==
    LET s == screening[r]
        asks == config.moderation_pre /\ \E i \in WithText(s.sent) : s.sent[i].text # <<>>
        now == IF config.pii_enabled THEN [i \in DOMAIN s.sent |-> Masked(s.sent[i])] ELSE s.sent
    IN  /\ s.pc = "idle"
        /\ held = NoMask
        /\ mask_map' = MaskEntry(r, s.sent)
        /\ held' = IF asks THEN r ELSE NoMask
        /\ screening' = [screening EXCEPT ![r].sent = now,
                                          ![r].pc = IF asks THEN "moderating" ELSE "calling"]
        /\ UNCHANGED config

Blocks(flagged) == flagged /\ config.block_on_moderation_failure

PreModerated(r, flagged) ==
    /\ screening[r].pc = "moderating"
    /\ screening' = [screening EXCEPT ![r].pc = IF Blocks(flagged) THEN "blocked" ELSE "calling"]
    /\ held' = NoMask
    /\ UNCHANGED <<config, mask_map>>

\* No connection, an error status, or a body that does not parse.
ModerationFails(r) ==
    /\ screening[r].pc \in {"moderating", "moderating_reply"}
    /\ screening' = [screening EXCEPT ![r].pc = "error"]
    /\ held' = NoMask
    /\ UNCHANGED <<config, mask_map>>

----------------------------------------------------------------------------
(* The provider answers: with what it was told, or something of its own.   *)

Replies(r) == {<<screening[r].sent[i].text>> : i \in WithText(screening[r].sent)}
              \cup {<<Bytes(Piece("plain", 0, 2))>>}

\* Only the agentic path calls post_call; the others hand the reply on.
Replied(r, reply) ==
    /\ screening[r].pc = "calling"
    /\ screening' = [screening EXCEPT ![r].reply = reply,
                                      ![r].pc = IF screening[r].tools THEN "replied" ELSE "done"]
    /\ UNCHANGED <<config, held, mask_map>>

\* The call fails, or the client goes away: the lock is let go with the future.
Dropped(r) ==
    /\ screening[r].pc \in {"moderating", "calling", "replied", "moderating_reply"}
    /\ screening' = [screening EXCEPT ![r].pc = "error"]
    /\ held' = IF held = r THEN NoMask ELSE held
    /\ UNCHANGED <<config, mask_map>>

----------------------------------------------------------------------------
(* post_call.                                                              *)

\* The first text takes the entry out; the texts after it find none.
Unmasked(r) ==
    LET reply == screening[r].reply IN
    [i \in DOMAIN reply |-> IF i = 1 THEN unmask(reply[1], mask_map[r]) ELSE reply[i]]

Finish(r) ==
    /\ held' = NoMask
    /\ IF config.pii_enabled
       THEN /\ mask_map' = [mask_map EXCEPT ![r] = NoMask]
            /\ screening' = [screening EXCEPT
                    ![r].reply = Unmasked(r),
                    ![r].pc = IF NoMask \in ToSet(Unmasked(r)) THEN "panicked" ELSE "done"]
       ELSE /\ UNCHANGED mask_map
            /\ screening' = [screening EXCEPT ![r].pc = "done"]
    /\ UNCHANGED config

post_call(r) ==
    /\ screening[r].pc = "replied"
    /\ held = NoMask
    /\ IF config.moderation_post /\ screening[r].reply[1] # <<>>
       THEN /\ held' = r
            /\ screening' = [screening EXCEPT ![r].pc = "moderating_reply"]
            /\ UNCHANGED <<config, mask_map>>
       ELSE Finish(r)

PostModerated(r, flagged) ==
    /\ screening[r].pc = "moderating_reply"
    /\ IF Blocks(flagged)
       THEN /\ screening' = [screening EXCEPT ![r].pc = "blocked"]
            /\ held' = NoMask
            /\ UNCHANGED <<config, mask_map>>
       ELSE Finish(r)

GNext ==
    \E r \in Screened :
        \/ pre_call(r) \/ post_call(r) \/ ModerationFails(r) \/ Dropped(r)
        \/ \E flagged \in BOOLEAN : PreModerated(r, flagged) \/ PostModerated(r, flagged)
        \/ \E reply \in Replies(r) : Replied(r, reply)

GSpec == GInit /\ [][GNext]_gvars

----------------------------------------------------------------------------
(* Properties.                                                             *)

\* With masking on, no byte of personal data is left in what the provider is sent,
\* however many matches of however many patterns a text has and in whatever order: the
\* offsets of Replace follow the text as it shrinks and grows.
NothingPersonalSent ==
    config.pii_enabled => \A r \in Screened : screening[r].pc = "calling" =>
        \A i \in WithText(screening[r].sent) : \A b \in ToSet(screening[r].sent[i].text) :
            b[1].kind \notin Kinds

\* The matches of a text come in the order of the patterns.
PatternOrder(text) ==
    \A i, j \in 1..Len(text) : \A p, q \in 1..Len(default_patterns) :
        i < j /\ text[i][1].kind = default_patterns[p] /\ text[j][1].kind = default_patterns[q]
            => p <= q

\* The reply repeats the i-th content, and no other.
Repeats(s, i) ==
    /\ s.reply = <<s.sent[i].text>>
    /\ \A j \in DOMAIN s.sent \ {i} : s.sent[j].text # s.sent[i].text

\* A reply that repeats the text that was masked last comes back with the originals in
\* place, whatever other requests did in between, when the matches of that text come in
\* the order of the patterns.  (In another order the recorded places are not those of the
\* masked text, and the reply is garbled or unmask panics.)
EchoRestored ==
    \A r \in Screened : \A i \in WithText(screening[r].was) :
        LET s == screening[r] IN
        /\ config.pii_enabled
        /\ s.pc = "replied"
        /\ i = LastMasked(s.was)
        /\ Repeats(s, i)
        /\ PatternOrder(s.was[i].text)
        => Unmasked(r) = <<s.was[i].text>>

============================================================================
