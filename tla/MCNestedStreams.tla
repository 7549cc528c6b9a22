-------------------------- MODULE MCNestedStreams --------------------------
(* An instance of NestedStreams for TLC. *)
EXTENDS NestedStreams

\* Group stages hand over to member stages.
GroupsFirst ==
    {<<"group">>, <<"members">>, <<"group", "group">>, <<"group", "members">>,
     <<"members", "members">>}

\* The second envelope has no variable x, those around it differ.
GapInside == <<-1, None, -3>>

\* The second branch makes two envelopes of one, the third drops it.
SecondDoubles == <<1, 2, 0>>
=============================================================================
