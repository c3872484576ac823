------------------------ MODULE MCMenuEventConsumer ------------------------
EXTENDS MenuEventConsumer

CONSTANTS i1, i2

ScriptEvent(id, item, version, type) ==
    [eventId |-> id, item |-> item, version |-> version, type |-> type]

\* An item created and deleted, another one created in between, and the
\* duplicate of an event the relay has published twice.
MCScript == <<ScriptEvent(1, i1, 0, "ItemCreated"),
              ScriptEvent(2, i2, 0, "ItemCreated"),
              ScriptEvent(3, i1, 1, "ItemDeleted"),
              ScriptEvent(2, i2, 0, "ItemCreated")>>

\* One item, and the duplicate of an event that another one has followed.
Repeated == <<ScriptEvent(1, i1, 0, "ItemCreated"),
              ScriptEvent(3, i1, 1, "ItemDeleted"),
              ScriptEvent(1, i1, 0, "ItemCreated")>>

MCScripts == {MCScript}
MCShortScripts == {Repeated}
=============================================================================
