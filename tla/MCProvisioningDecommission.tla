--------------------- MODULE MCProvisioningDecommission ---------------------
EXTENDS ProvisioningDecommission
=============================================================================
