---------------------------- MODULE PostExtraction ---------------------------
(***************************************************************************)
(* What the two extractors make of one captured payload, a GraphQL answer  *)
(* of Facebook: the posts of a group, or those of a home feed with the     *)
(* publisher each is attributed to.                                        *)
(*                                                                         *)
(* A payload is the sequence of its telling objects in the order of the    *)
(* traversal, each with the object it is part of and how.  A story is      *)
(* often there several times, as fragments that tell more or less of it.   *)
(***************************************************************************)
EXTENDS Integers, Sequences, FiniteSetsExt, SequencesExt

CONSTANTS Posts, Publishers, Null

\* How an object is reached from the one it belongs to: ASIDE by the keys of
\* comments, replies and people, FEEDBACK by that key, media or reactors, where
\* only sponsorship is looked for, PART by any other
Via == {"PART", "FEEDBACK", "ASIDE"}

\* A publisher has a stable id, one that is NAMED has none, a PERSON is a
\* personal profile; an AD is sponsorship metadata
Kinds == {"STORY", "PUBLISHER", "NAMED", "PERSON", "AD"}

\* text: how much is told of the story, 0 when its body is missing
Node == [kind : Kinds, post : Posts \cup {Null}, publisher : Publishers \cup {Null},
         text : 0 .. 2, parent : Nat, via : Via]

Modes == {"GROUP", "HOME_FEED"}

-----------------------------------------------------------------------------
(* The traversals below one object *)

\* The objects that belong to object i and are reached from it by the given keys
Within(t, i, keys) ==
    LET in[j \in i .. Len(t)] ==
            \/ j = i
            \/ t[j].parent >= i /\ t[j].via \in keys /\ in[t[j].parent]
    IN  {j \in i .. Len(t) : in[j]}

\* Without the feedback and the people
WithinStory(t, i) == Within(t, i, {"PART"})

Referred(t, i, kind) == {j \in WithinStory(t, i) : t[j].kind = kind}

\* hasExplicitSponsoredMetadata
Sponsored(t, i) ==
    \E j \in Within(t, i, {"PART", "FEEDBACK"}) : t[j].kind = "AD"

\* The first text of the story: its own or, without, that of one of its parts
TextOf(t, i) ==
    LET told == {j \in WithinStory(t, i) : t[j].text > 0}
    IN  IF told = {} THEN 0 ELSE t[Min(told)].text

\* resolvePublisherObservation: the first publisher with a stable id, whatever
\* else is named
PublisherOf(t, i) ==
    LET resolved == Referred(t, i, "PUBLISHER")
    IN  IF resolved = {} THEN Null ELSE t[Min(resolved)].publisher

-----------------------------------------------------------------------------
(* Candidates *)

\* Fragments of stories without a post id are skipped
IsPost(t, i) == t[i].kind = "STORY" /\ t[i].post # Null

\* A personal-profile post, a publisher without a stable id and an unknown one
\* all leave the post without a publisher
Accepted(mode, t, i) ==
    /\ IsPost(t, i)
    /\ TextOf(t, i) > 0
    /\ mode = "HOME_FEED" => ~Sponsored(t, i) /\ PublisherOf(t, i) # Null

Candidate(mode, t, i) ==
    [post |-> t[i].post, text |-> TextOf(t, i),
     publisher |-> IF mode = "GROUP" THEN Null ELSE PublisherOf(t, i)]

\* deduplicatePostCandidates: the richest fragment stays, the first of equals
Keep(kept, c) ==
    IF \E k \in DOMAIN kept : kept[k].post = c.post
    THEN [k \in DOMAIN kept |->
            IF kept[k].post = c.post /\ c.text > kept[k].text THEN c ELSE kept[k]]
    ELSE Append(kept, c)

\* The fragments in the order of the traversal
Extract(mode, t) ==
    FoldLeftDomain(LAMBDA kept, i :
                       IF Accepted(mode, t, i) THEN Keep(kept, Candidate(mode, t, i)) ELSE kept,
                   <<>>, t)
=============================================================================
