----------------------------- MODULE MCSession ------------------------------
(* A package with three versions.                                          *)
EXTENDS Session

CONSTANTS s1, s2

K(v) == [name |-> "k", ver |-> v]
OnePackage == {K(1), K(2), K(3)}
OneOrTwo == {{K(1)}, {K(1), K(2)}}
MCUses == [s \in Session |-> IF s = s1 THEN {"reload", "install", "upgrade", "uninstall"} ELSE {"ls"}]
=============================================================================
