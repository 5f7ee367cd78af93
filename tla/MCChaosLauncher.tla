---------------------------- MODULE MCChaosLauncher ----------------------------
EXTENDS ChaosLauncher
===============================================================================
