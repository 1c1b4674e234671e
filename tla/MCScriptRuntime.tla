--------------------------- MODULE MCScriptRuntime ---------------------------
EXTENDS ScriptRuntime
=============================================================================
