------------------------------ MODULE Decoding ------------------------------
(***************************************************************************)
(* Decoding one HTML payload (decoder.py): the limits, and the parser that *)
(* keeps text and leaves out active content by counting elements.          *)
(*                                                                         *)
(* The tokenizer is Python's html.parser: after a script or style start    *)
(* tag everything up to that element's own end tag is text.  It is fed     *)
(* once and never closed: a text at the end of the document with an        *)
(* ampersand that neither a space nor a semicolon follows stays in its     *)
(* buffer.                                                                 *)
(* Abstractions: a document is a sequence of tokens; "script" stands for   *)
(* both of those elements, "template" for the two ignored ones that may    *)
(* hold elements, and other elements leave no trace but between texts.     *)
(***************************************************************************)
EXTENDS Integers, Sequences

CONSTANTS MaxTokens, MaxTokensDecoded   \* lengths offered, and decoder limit

Tokens == {"<script>", "</script>", "<template>", "</template>", "text"}

VARIABLES
    document,
    openEnded,   \* the last token is a text that the parser holds back
    at,          \* tokens read
    raw,         \* inside of script: the tokenizer looks for its end tag only
    ignored,     \* _ignored_depth
    fragments,   \* places of the texts kept
    removed,     \* active_content_removed
    decoding     \* "offered", "feeding", "decoded" or "rejected"

decodevars == <<document, openEnded, at, raw, ignored, fragments, removed, decoding>>

DecodeTypeOK ==
    /\ at \in 0..Len(document) /\ ignored \in 0..at /\ raw \in BOOLEAN
    /\ fragments \subseteq 1..at /\ openEnded \in BOOLEAN
    /\ decoding \in {"offered", "feeding", "decoded", "rejected"}

DecodeInit ==
    /\ document \in UNION {[1..n -> Tokens] : n \in 1..MaxTokens}
    /\ openEnded \in IF document[Len(document)] = "text" THEN BOOLEAN ELSE {FALSE}
    /\ at = 0 /\ raw = FALSE /\ ignored = 0 /\ fragments = {} /\ removed = FALSE
    /\ decoding = "offered"

\* StandardDecoder.decode(): size, media type and encoding are checked before the parse.
Accept ==
    /\ decoding = "offered"
    /\ decoding' \in IF Len(document) > MaxTokensDecoded THEN {"rejected"}
                     ELSE {"feeding", "rejected"}
    /\ UNCHANGED <<document, openEnded, at, raw, ignored, fragments, removed>>

Reading(token) ==
    /\ decoding = "feeding" /\ at < Len(document) /\ document[at + 1] = token
    /\ at' = at + 1 /\ UNCHANGED <<document, openEnded, decoding>>

\* Broken variant: any end tag ends all.
DepthAfterEndAll == 0

\* handle_endtag(): a stray end tag counts for nothing.
DepthAfterEnd == IF ignored > 0 THEN ignored - 1 ELSE 0

Ends == ignored' = DepthAfterEnd /\ UNCHANGED <<fragments, removed>>

Starts == ignored' = ignored + 1 /\ removed' = TRUE /\ UNCHANGED fragments

\* What is still in the parser's buffer when feed() returns.
HeldBack == IF openEnded THEN {Len(document)} ELSE {}

\* handle_data(), which a text held back never reaches.
HandleData ==
    /\ fragments' = IF ignored = 0 /\ at + 1 \notin HeldBack THEN fragments \cup {at + 1} ELSE fragments
    /\ UNCHANGED <<ignored, removed>>

ReadScript == Reading("<script>") /\ ~ raw /\ raw' = TRUE /\ Starts
ReadScriptEnd == Reading("</script>") /\ raw' = FALSE /\ Ends
ReadTemplate == Reading("<template>") /\ ~ raw /\ UNCHANGED raw /\ Starts
ReadTemplateEnd == Reading("</template>") /\ ~ raw /\ UNCHANGED raw /\ Ends
ReadText == Reading("text") /\ UNCHANGED raw /\ HandleData
ReadRaw == \E t \in {"<script>", "<template>", "</template>"} :
              Reading(t) /\ raw /\ UNCHANGED raw /\ HandleData

\* The batch is made of what the parser kept: feed() without close().
Finish ==
    /\ decoding = "feeding" /\ at = Len(document) /\ decoding' = "decoded"
    /\ UNCHANGED <<document, openEnded, at, raw, ignored, fragments, removed>>

DecodeNext ==
    \/ Accept \/ Finish
    \/ ReadScript \/ ReadScriptEnd \/ ReadTemplate \/ ReadTemplateEnd \/ ReadText \/ ReadRaw

DecodeSpec == DecodeInit /\ [][DecodeNext]_decodevars

-----------------------------------------------------------------------------
(* Properties *)

\* Spans of the document, as first and last token, that nest well.
DocumentSpans == (1..Len(document) + 1) \X (0..Len(document))

Nested[s \in DocumentSpans] ==
    LET i == s[1]
        j == s[2]
    IN \/ i > j
       \/ document[i] = "text" /\ Nested[<<i + 1, j>>]
       \/ \E m \in i + 1..j :
             /\ Nested[<<m + 1, j>>]
             /\ \/ /\ document[i] = "<script>" /\ document[m] = "</script>"
                   /\ \A k \in i + 1..m - 1 : document[k] # "</script>"
                \/ /\ document[i] = "<template>" /\ document[m] = "</template>"
                   /\ Nested[<<i + 1, m - 1>>]

\* Spans made of such spans and of end tags that end nothing.
Page[s \in DocumentSpans] ==
    LET i == s[1]
        j == s[2]
    IN \/ i > j
       \/ document[i] \in {"text", "</script>", "</template>"} /\ Page[<<i + 1, j>>]
       \/ \E m \in i + 1..j : document[i] # "text" /\ Nested[<<i, m>>] /\ Page[<<m + 1, j>>]

\* Of a document whose elements nest, with stray end tags or without, no text inside of
\* active elements is kept, and all of the text outside of them but a last one that the
\* parser, never closed, holds back: counting elements, whatever their names, does as well
\* as a tree (_SafeHTMLText).  Of other documents it may keep or lose more.
OnlyVisibleTextIsKept ==
    decoding = "decoded" /\ Page[<<1, Len(document)>>] =>
        fragments = {k \in DOMAIN document \ HeldBack :
            /\ document[k] = "text"
            /\ Page[<<1, k - 1>>] /\ Page[<<k + 1, Len(document)>>]}
=============================================================================
