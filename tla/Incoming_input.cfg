SPECIFICATION Spec
CONSTANTS
    up = up
    down = down
    key1 = key1
    key2 = key2
    Commands = {up, down}
    Mappings <- MCMappings
    Initiators = {tv, amp}
    Tv = tv
    REPLY_RETRIES = 4
INVARIANTS
    HeldIsActive
    OneVerdict
PROPERTY MessagesEnd
