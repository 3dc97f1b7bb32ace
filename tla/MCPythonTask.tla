---------------------------- MODULE MCPythonTask ----------------------------
EXTENDS PythonTask
=============================================================================
