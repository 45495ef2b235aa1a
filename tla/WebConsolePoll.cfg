CONSTANTS Tabs = {"a"}
LastIndex = 3
LOG_BUFFER_SIZE = 3
Sizes = {1, 2}
OtherTasks = TRUE
MaxLines = 3
MaxPauses = 2
SPECIFICATION FairSpec
PROPERTIES PollAnswered
CHECK_DEADLOCK FALSE
