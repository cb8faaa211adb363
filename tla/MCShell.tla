------------------------------ MODULE MCShell ------------------------------
(* Instances of Shell for TLC: a screen of a few cells, and short names for *)
(* the commands.                                                            *)
EXTENDS Shell

CONSTANTS a, b

MCClear == <<b>>
MCLogo == <<a>>
MCUptime == <<a, a>>
MCMem == <<a, b>>
MCVersion == <<b, a>>
MCGetpid == <<b, b>>
MCVersionText == <<b>>

\* Nothing is said of a screen the cursor has left.
WithinMargin == ~overrun
=============================================================================
