---------------------------- MODULE MCSignalPipeline ----------------------------
EXTENDS SignalPipeline
=============================================================================
