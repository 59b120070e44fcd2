--------------------------- MODULE MCFollowupQueue ---------------------------
(* Settings of the follow-up queue for model checking.                      *)
EXTENDS FollowupQueue

\* Two messages of one conversation and one of another, in the order that lets
\* the first two be collected, and in one that keeps them apart.
RoutingsInUse == {<<"here", "here", "there">>, <<"here", "there", "there">>}

Of(mode, dropPolicy, cap) == [mode |-> mode, dropPolicy |-> dropPolicy, cap |-> cap]

\* Both modes, every policy, and a cap that a change of settings lowers.
SettingsInUse == {Of("collect", "summarize", 2), Of("followup", "summarize", 1),
                  Of("followup", "new", 2)}

\* The defaults, but for a smaller cap.
DefaultSettings == {Of("collect", "summarize", 2)}

=============================================================================
