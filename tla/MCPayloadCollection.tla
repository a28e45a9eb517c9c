------------------------ MODULE MCPayloadCollection -------------------------
EXTENDS PayloadCollection

CONSTANTS x1, x2, x3, g1, g2, r1, r2

Story(post, text, parent, via) ==
    [kind |-> "STORY", post |-> post, publisher |-> Null, text |-> text,
     parent |-> parent, via |-> via]

Other(kind, publisher, parent) ==
    [kind |-> kind, post |-> Null, publisher |-> publisher, text |-> 0,
     parent |-> parent, via |-> "PART"]

\* What else one story has
Extras(parent) ==
    {<<>>, <<Other("PERSON", Null, parent)>>, <<Other("AD", Null, parent)>>}
        \cup {<<Other("PUBLISHER", g, parent)>> : g \in {g1, g2}}

\* A story and a fragment of it, or another story, in one of its parts
Nested ==
    {<<Story(x1, o, 0, "PART")>> \o before
        \o <<Story(post, i, 1, via)>> \o inside \o after :
            o \in 0 .. 1, i \in 1 .. 2, post \in {x1, x2}, via \in Via,
            before \in Extras(1), inside \in Extras(0),
            after \in {<<>>, <<Other("PUBLISHER", g1, 1)>>}}

\* The nodes inside belong to the second story, wherever it stands
Placed(t) ==
    LET second == CHOOSE k \in 2 .. Len(t) : t[k].kind = "STORY"
    IN  [k \in DOMAIN t |-> IF k > 1 /\ t[k].parent = 0
                            THEN [t[k] EXCEPT !.parent = second] ELSE t[k]]

Single(post, text, publisher) ==
    <<Story(post, text, 0, "PART"), Other("PUBLISHER", publisher, 1)>>

\* Two stories side by side
Both(t, u) ==
    t \o [k \in DOMAIN u |-> [u[k] EXCEPT !.parent =
                                IF u[k].parent = 0 THEN 0 ELSE @ + Len(t)]]

Answers(scripted, gots, contents) ==
    {[asked |-> "u", got |-> got, scripted |-> scripted, bodies |-> bodies] :
        got \in gots, bodies \in contents}

\* Two answers that may repeat a post, the first perhaps redirected; one of two bodies
Pairs ==
    (Answers(TRUE, {"u", "v"}, {<<Both(Single(x1, 1, g1), Single(x2, 1, g1))>>})
        \X Answers(TRUE, {"u"}, {<<Single(x1, 2, g2)>>}))
    \cup
    (Answers(TRUE, {"v"}, {<<>>, <<Single(x1, 1, g1)>>})
        \X Answers(TRUE, {"u"}, {<<Single(x2, 1, g1), Both(Single(x1, 1, g2), Single(x3, 1, g2))>>}))

\* One answer with a nested story, or two answers of simple ones
MCFeeds ==
    {[r \in Responses |-> IF r = r1 THEN answer ELSE Null] :
        answer \in Answers(FALSE, {"u"}, {<<Placed(t)>> : t \in Nested})}
    \cup
    {[r \in Responses |-> IF r = r1 THEN pair[1] ELSE pair[2]] : pair \in Pairs}
=============================================================================
