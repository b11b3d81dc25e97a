-------------------------- MODULE MC_PluginManager --------------------------
EXTENDS PluginManager, TLC

\* Three plugin directories in readdir order.
MCDirs == 1..3
=============================================================================
