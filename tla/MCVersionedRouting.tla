-------------------------- MODULE MCVersionedRouting --------------------------
EXTENDS VersionedRouting

\* Every feature; a right server, one at fault for each version, and those
\* whose faults come up for what a feature wants served.
MCFeatures == Deployments \cup BuildIds
MCFaults   == {{}} \cup {{v} : v \in Workers}
              \cup {{"1.0", "2.0"}, {"1.0", "1.1", "1.2"}}
===============================================================================
