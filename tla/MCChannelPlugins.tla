-------------------------- MODULE MCChannelPlugins --------------------------
\* Bounds for checking ChannelPlugins.
EXTENDS ChannelPlugins
=============================================================================
