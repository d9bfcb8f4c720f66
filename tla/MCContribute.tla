---------------------------- MODULE MCContribute ----------------------------
EXTENDS Contribute
MCManager == {"selfplay", "rating"}
=============================================================================
