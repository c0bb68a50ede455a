----------------------------- MODULE MCParsers -----------------------------
(* An instance of Parsers for TLC.  Pieces and words are strings: the code  *)
(* compares them with its own.                                              *)
EXTENDS Parsers, TLC

TwoNodes   == {"pve1", "pve2"}
ThreeNames == {"pve1", "pve2", "local"}
OneFlag    == {"--online"}
OnePath    == {"/usr/bin/perl"}

LogPieces == ThreeNames \cup {"to", "node", "target", "text", "100"}

DecimalPieces == {"1", "00"}
OneNumber     == {"100"}
HexPieces     == {"1", "00", "A"}
TwoUsers      == {<<"root", "@pam">>, <<"ha">>}
ThreeIDs      == {<<>>, <<"1">>, <<"1", "00">>}

\* No value, two words, a volume, a value that looks like an entry.
FiveValues == {<<>>, <<"web">>, <<"db">>, <<"local", ":", "hook">>,
               <<"name", ":", "b">>}

PlainPieces == {"a", "_"}
NamePieces  == PlainPieces \cup {".", "*", ">"}
=============================================================================
