------------------------- MODULE MCTrainingCommands -------------------------
EXTENDS TrainingCommands
MCManager == {"selfplay"}
=============================================================================
