------------------------------- MODULE MCAudit -------------------------------
(* One build and one case for each of the two runners. *)
EXTENDS Audit

MCBuilds == <<"make">>
MCCases == << <<"t01/ft_strace", "t01/gnu">> >>
NoCases == <<>>
MCI386Builds == <<"as">>
MCI386Case == <<"t15/ft_strace", "t15/gnu">>
==============================================================================
