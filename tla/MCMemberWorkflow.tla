----------------------------- MODULE MCMemberWorkflow -----------------------------
(* Instances of MemberWorkflow for TLC: what the sessions of a run do when  *)
(* they are failed, and which requests are made.                           *)
EXTENDS MemberWorkflow

OneSession == 1..1
TwoSessions == 1..2
NoSessions == {}
FailKick == <<"kick">>
FailBan == <<"ban">>
FailKickThenMute == <<"kick", "mute">>

NoRequest == {}
OneRequest == 1..1
TwoRequests == 1..2
NoFunction == <<>>

Both == BOOLEAN
Never == {FALSE}

Kick == <<"kick">>
Mute == <<"mute">>
BanAndUnmute == <<"ban", "unmute">>
Automatic == <<"automatic">>
AutomaticAndManual == <<"automatic", "manual">>
KeepMessage == <<FALSE>>
DropMessage == <<TRUE>>
DropFirst == <<TRUE, FALSE>>
=============================================================================
