------------------------------- MODULE MCReport -------------------------------
\* An item for the bot and one for another, one report, sixty hours.
EXTENDS Report, TLC

MCCommands == {<<0, "d">>, <<1, "d">>, Bare}
=============================================================================
